---- MODULE Spec2Model ----
(***************************************************************************)
(* Job orchestration and state-reconciliation core of audiobook-factory:   *)
(* the State Store (app/state.py), the two worker pools, the cancellation  *)
(* registry, the pause gate and the Reconciler (app/jobs.py), the Durable  *)
(* Queue Mirror (app/db.py, table processing_queue) and the request        *)
(* handlers of app/web.py that drive them.                                 *)
(*                                                                         *)
(* Progress values are integers in percent (0.37 is 37).  File contents    *)
(* are not modelled, only which files exist.  Timestamps are modelled by   *)
(* whether the field is set.  Log and error strings are the literal        *)
(* strings of the source, shortened.                                       *)
(***************************************************************************)
EXTENDS Integers, Sequences, FiniteSets, TLC

\* ---------------------------------------------------------------- bounds
MaxJobs == 2
MaxQueue == 2
NumTargets == 1
MaxWarn == 1

JobIds == 1..MaxJobs
Targets == 1..NumTargets
Pools == {"synthesis", "assembly"}

\* elapsed/eta projections (percent, before the 0.98 cap) the clock can show
TimeVals == {20, 150}
\* number of generation groups of a bake / segment job
NumGroups == 2

Statuses == {"queued", "running", "done", "failed", "cancelled"}
\* speaker profile folders under VOICES_DIR (1 is "Dark Fantasy"); 0 is None
Profiles == {1, 2}
\* speeds in tenths
Speeds == {10, 15}

VARIABLES
    jobs,            \* state.json "jobs": job id -> record (DOMAIN = ids present)
    mirror,          \* processing_queue rows: queue id -> [target, status]
    job_queue,       \* jobs.job_queue (synthesis pool FIFO of ids)
    assembly_queue,  \* jobs.assembly_queue
    cancel_flags,    \* jobs.cancel_flags: id -> "none" | "clear" | "set"
    pause_flag,      \* jobs.pause_flag
    worker,          \* per pool: position and locals of worker_loop
    files,           \* which files exist on disk
    nextId,          \* ids handed out so far + 1 (uuid4 values never repeat)
    held,            \* ids enqueued while the pause gate was engaged and not released since
    cancel_running,  \* ids whose cancel() was called while the job was running, turn not ended
    chapters,        \* chapters.audio_status of each chapter (target)
    state_file,      \* state.json on disk (main: its condition, "valid" = holds jobs),
                     \* state.json.tmp, state.json.corrupt, and the store operation in
                     \* progress (pending: the text it writes, pc: its position)
    raised,          \* the last State Store operation raised to its caller
    settings,        \* state.json "settings" (default_speaker_profile 0: not set)
    profiles,        \* VOICES_DIR/<profile>/profile.json "speed" (0: no such key)
    notified,        \* the listeners called back by the last update_job whose side
                     \* effects were made to fail (update_job_failing)
    metrics,         \* state.json "performance_metrics" (xtts_cps in chars/s,
                     \* audiobook_speed_multiplier in tenths)
    threads,         \* per thread: the State Store / mirror call it is in, its
                     \* position in the call, what it loaded, the calls it completed
    locks            \* state._STATE_LOCK (owner, depth) and db._db_lock (owner)

vars == <<jobs, mirror, job_queue, assembly_queue, cancel_flags, pause_flag,
          worker, files, nextId, held, cancel_running, chapters, state_file, raised,
          settings, profiles, notified, metrics, threads, locks>>

\* ------------------------------------------------------------ Job record
\* dataclass Job; project / kind stand for project_id and is_bake / segment_ids
NewJob(engine, kind, target, project, bypass, mp3) ==
    [engine |-> engine, kind |-> kind, target |-> target, project |-> project,
     status |-> "queued", bypass_pause |-> bypass, make_mp3 |-> mp3,
     safe_mode |-> IF engine = "audiobook" THEN TRUE ELSE settings.safe_mode,
     speaker_profile |-> 0,
     progress |-> 0, started_at |-> FALSE, finished_at |-> FALSE,
     output_wav |-> FALSE, output_mp3 |-> FALSE,
     log |-> "", log_len |-> 0, error |-> "None", warning_count |-> 0]

\* the bound of the stored log (20000 characters) in units of a log line, and
\* the length from which longer texts are not told apart
LogBound == 2
MaxLogs == LogBound + 1

\* j.update(updates); log_len is len(log): a header, notice or traceback tail
\* written as log is one unit long unless the update says otherwise
Upd(j, u) ==
    [f \in DOMAIN j |->
        IF f \in DOMAIN u THEN u[f]
        ELSE IF f = "log_len" /\ "log" \in DOMAIN u THEN 1
        ELSE j[f]]

\* state.put_job
put_job(js, id, j) == [i \in (DOMAIN js) \cup {id} |-> IF i = id THEN j ELSE js[i]]

\* state.delete_jobs
delete_jobs(js, ids) == [i \in (DOMAIN js) \ ids |-> js[i]]

\* db.update_queue_item (processing_queue part)
update_queue_item(m, id, status) ==
    IF id \in DOMAIN m THEN [m EXCEPT ![id].status = status] ELSE m

\* variant of update_job that creates the record when the id is unknown
update_job_upsert(js, id, u) ==
    IF id \in DOMAIN js THEN [js EXCEPT ![id] = Upd(js[id], u)]
    ELSE [i \in (DOMAIN js) \cup {id} |->
             IF i = id
             THEN [engine |-> "xtts", kind |-> "plain", target |-> 1, project |-> FALSE,
                   status |-> "queued", bypass_pause |-> FALSE, make_mp3 |-> TRUE,
                   safe_mode |-> TRUE, speaker_profile |-> 0,
                   progress |-> 0, started_at |-> FALSE, finished_at |-> FALSE,
                   output_wav |-> FALSE, output_mp3 |-> FALSE,
                   log |-> "", log_len |-> 0, error |-> "None", warning_count |-> 0]
             ELSE js[i]]

\* state.update_job: the record part
update_job(js, id, u) ==
    IF id \in DOMAIN js THEN [js EXCEPT ![id] = Upd(js[id], u)] ELSE js

\* state.update_job: whether the registered listeners are called back
update_job_notifies(js, id) == id \in DOMAIN js

\* variant of the forward-sync that does not look for the job record first
update_job_mirror_any_id(js, m, id, u) ==
    IF "status" \in DOMAIN u
    THEN update_queue_item(m, id, u.status) ELSE m

\* state.update_job: the forward-sync to the mirror when status is among the updates
update_job_mirror(js, m, id, u) ==
    IF id \in DOMAIN js /\ "status" \in DOMAIN u
    THEN update_queue_item(m, id, u.status) ELSE m

\* db.update_queue_item: the audio_status written to the chapter of the row
ChapterStatus(status) ==
    IF status = "done" THEN "done"
    ELSE IF status \in {"running", "queued"} THEN "processing"
    ELSE IF status = "cancelled" THEN "unprocessed"
    ELSE "error"

\* db.update_queue_item (chapters part; a queue id is never a chapter id)
update_queue_item_chapters(m, ch, id, status) ==
    IF id \in DOMAIN m THEN [ch EXCEPT ![m[id].target] = ChapterStatus(status)] ELSE ch

\* state.update_job: the forward-sync to the chapter when status is among the updates
update_job_chapters(js, m, ch, id, u) ==
    IF id \in DOMAIN js /\ "status" \in DOMAIN u
    THEN update_queue_item_chapters(m, ch, id, u.status) ELSE ch

\* update_job(status=...) on every job of hit: the chapters after the loop
ChaptersOfHit(m, ch, hit, status) ==
    [t \in DOMAIN ch |->
        IF \E i \in hit \cap DOMAIN m : m[i].target = t
        THEN ChapterStatus(status) ELSE ch[t]]

\* jobs._output_exists
_output_exists(fs, engine, target, project, make_mp3) ==
    IF engine = "audiobook"
    THEN IF project THEN target \in fs.m4b_project ELSE target \in fs.m4b_legacy
    ELSE IF engine = "xtts"
    THEN LET mp3 == IF project
                    THEN target \in fs.mp3_project \/ target \in fs.mp3_legacy
                    ELSE target \in fs.mp3_legacy
             wav == IF project
                    THEN target \in fs.wav_project \/ target \in fs.wav_legacy
                    ELSE target \in fs.wav_legacy
         IN IF make_mp3 THEN mp3 ELSE wav
    ELSE FALSE

\* worker_loop: text_path.exists() (no legacy fallback for project jobs)
WorkerTextExists(fs, j) ==
    IF j.project THEN j.target \in fs.text_project ELSE j.target \in fs.text_legacy

\* cleanup_and_reconcile: text_path.exists() with the legacy fallback
ReconcileTextExists(fs, j) ==
    IF j.project
    THEN j.target \in fs.text_project \/ j.target \in fs.text_legacy
    ELSE j.target \in fs.text_legacy

\* ---------------------------------------------------------------- queues
InQueue(q, id) == \E i \in 1..Len(q) : q[i] = id

\* the queue a job of this engine goes to (enqueue / requeue)
PoolOf(engine) == IF engine = "audiobook" THEN "assembly" ELSE "synthesis"

QueueOf(w) == IF w = "assembly" THEN assembly_queue ELSE job_queue

\* state._default_state()["performance_metrics"]: xtts_cps 16.7 (whole chars/s
\* here), audiobook_speed_multiplier 1.0 (in tenths)
_default_metrics == [xtts_cps |-> 16, audiobook_speed_multiplier |-> 10]

\* the threads that call into the State Store: the two workers and a request
\* handler
Threads == {"synthesis", "assembly", "handler"}

\* ---------------------------------------------------------------- worker
IdleWorker ==
    [pc |-> "idle", jid |-> 0, j |-> <<>>, cancel_ev |-> "none", groups_completed |-> 0,
     chars |-> 0, perf |-> <<>>, actual_dur |-> 0]

Init ==
    /\ jobs = <<>>
    /\ mirror = <<>>
    /\ job_queue = <<>>
    /\ assembly_queue = <<>>
    /\ cancel_flags = [i \in JobIds |-> "none"]
    /\ pause_flag = FALSE
    /\ worker = [w \in Pools |-> IdleWorker]
    /\ files = (
          [text_project |-> {}, text_legacy |-> {},
           wav_project |-> {}, wav_legacy |-> {},
           mp3_project |-> {}, mp3_legacy |-> {},
           m4b_project |-> {}, m4b_legacy |-> {}])
    /\ nextId = 1
    /\ held = {}
    /\ cancel_running = {}
    /\ chapters = [t \in Targets |-> "unprocessed"]
    /\ state_file = [main |-> "valid", tmp |-> "none", backup |-> FALSE,
                     pending |-> <<>>, pc |-> "idle"]
    /\ raised = FALSE
    /\ settings = [safe_mode |-> TRUE, make_mp3 |-> FALSE, default_speaker_profile |-> 0]
    /\ profiles = [p \in Profiles |-> 0]
    /\ notified = {}
    /\ metrics = _default_metrics
    /\ threads = [t \in Threads |-> ([op |-> <<>>, pc |-> 0, local |-> <<>>, completed |-> <<>>])]
    /\ locks = [state |-> [owner |-> "none", depth |-> 0], db |-> "none"]

\* jobs.enqueue(job), on the store js the handler has produced so far
enqueue(js, id, j) ==
    /\ (Len(QueueOf(PoolOf(j.engine))) < MaxQueue)
    /\ jobs' = put_job(js, id, j)
    /\ cancel_flags' = [cancel_flags EXCEPT ![id] = "clear"]
    /\ worker' = (
          [w \in Pools |->
              IF worker[w].jid = id /\ worker[w].cancel_ev = "registry"
              THEN [worker[w] EXCEPT !.cancel_ev = cancel_flags[id]]
              ELSE worker[w]])
    /\ (
          /\ job_queue' = IF j.engine = "audiobook" THEN job_queue ELSE Append(job_queue, id)
          /\ assembly_queue' = IF j.engine = "audiobook" THEN Append(assembly_queue, id)
                               ELSE assembly_queue)

\* a job first enqueued while the gate is engaged is held until the gate is released
HeldAfterEnqueue(id) == IF pause_flag THEN held \cup {id} ELSE held

\* web.enqueue_single (engine = "xtts")
enqueue_single(t) ==
    LET same == {i \in DOMAIN jobs : jobs[i].target = t /\ jobs[i].engine = "xtts"}
    IN /\ nextId <= MaxJobs
       /\ \A i \in same : jobs[i].status # "running"
       /\ enqueue(delete_jobs(jobs, same), nextId,
                  NewJob("xtts", "plain", t, FALSE, TRUE, TRUE))
       /\ nextId' = nextId + 1
       /\ held' = HeldAfterEnqueue(nextId)
       /\ UNCHANGED <<mirror, chapters, pause_flag, state_file, raised, settings, profiles, files, cancel_running, notified, metrics, threads, locks>>

\* db.add_to_queue: the ids the uniqueness SELECT can return
ActiveRows(m, t) ==
    {i \in DOMAIN m : m[i].target = t /\ m[i].status \in {"queued", "running"}}

\* db.add_to_queue: the row set after the call that returns qid
add_to_queue(m, t, qid) ==
    IF ActiveRows(m, t) # {} THEN m
    ELSE [i \in (DOMAIN m) \cup {qid} |->
             IF i = qid THEN [target |-> t, status |-> "queued"] ELSE m[i]]

\* web.api_add_to_queue: speaker_profile or the default of the settings
ActiveProfile(sp) == IF sp # 0 THEN sp ELSE settings.default_speaker_profile

\* web.api_add_to_queue with the form field speaker_profile = sp (0: absent);
\* the chapter row exists
api_add_to_queue_as(t, sp) ==
    \E qid \in JobIds :
       /\ ActiveProfile(sp) # 0
       /\ IF ActiveRows(mirror, t) # {} THEN qid \in ActiveRows(mirror, t)
          ELSE qid = nextId
       /\ mirror' = add_to_queue(mirror, t, qid)
       /\ chapters' = IF ActiveRows(mirror, t) # {} THEN chapters
                      ELSE [chapters EXCEPT ![t] = "processing"]
       /\ files' = [files EXCEPT !.text_project = @ \cup {t}]
       /\ enqueue(jobs, qid, [NewJob("xtts", "plain", t, TRUE, FALSE, TRUE)
                                 EXCEPT !.speaker_profile = ActiveProfile(sp)])
       /\ nextId' = IF qid = nextId THEN nextId + 1 ELSE nextId
       /\ held' = IF qid = nextId THEN HeldAfterEnqueue(qid) ELSE held
       /\ UNCHANGED <<pause_flag, state_file, raised, settings, profiles, cancel_running, notified, metrics, threads, locks>>

\* web.api_add_to_queue, the request that names the profile "Dark Fantasy"
api_add_to_queue(t) == api_add_to_queue_as(t, 1)

\* web.update_job_title for the chapter file t: the title is a field the
\* records here do not carry, so only the placeholder record of a chapter
\* without jobs changes them (a new id, put_job without enqueue)
update_job_title(t) ==
    LET found_any == \E i \in DOMAIN jobs : jobs[i].target = t /\ ~jobs[i].project
    IN /\ ~found_any
       /\ t \in files.text_legacy
       /\ nextId <= MaxJobs
       /\ jobs' = put_job(jobs, nextId,
                          [NewJob("xtts", "plain", t, FALSE, FALSE, TRUE) EXCEPT
                              !.status = "done",
                              !.safe_mode = TRUE,
                              !.log = "Job record created to store custom title.",
                              !.log_len = 1])
       /\ nextId' = nextId + 1
       /\ UNCHANGED <<mirror, chapters, job_queue, assembly_queue, cancel_flags,
                      pause_flag, worker, files, held, cancel_running, state_file,
                      raised, settings, profiles, notified, metrics, threads, locks>>

\* web.create_audiobook: legacy assembly job, bypass_pause left at its default
create_audiobook(t) ==
    /\ nextId <= MaxJobs
    /\ enqueue(jobs, nextId, NewJob("audiobook", "plain", t, FALSE, FALSE, FALSE))
    /\ nextId' = nextId + 1
    /\ held' = HeldAfterEnqueue(nextId)
    /\ UNCHANGED <<mirror, chapters, pause_flag, state_file, raised, settings, profiles, files, cancel_running, notified, metrics, threads, locks>>

\* web.assemble_project: project assembly job with bypass_pause=True
assemble_project(t) ==
    /\ nextId <= MaxJobs
    /\ enqueue(jobs, nextId, NewJob("audiobook", "plain", t, TRUE, TRUE, FALSE))
    /\ nextId' = nextId + 1
    /\ held' = HeldAfterEnqueue(nextId)
    /\ UNCHANGED <<mirror, chapters, pause_flag, state_file, raised, settings, profiles, files, cancel_running, notified, metrics, threads, locks>>

\* jobs.enqueue of a chapter-bake or segment-generation job (is_bake / segment_ids)
enqueue_segment_job(t, kind) ==
    /\ nextId <= MaxJobs
    /\ kind \in {"bake", "segments"}
    /\ enqueue(jobs, nextId, NewJob("xtts", kind, t, TRUE, FALSE, TRUE))
    /\ nextId' = nextId + 1
    /\ held' = HeldAfterEnqueue(nextId)
    /\ UNCHANGED <<mirror, chapters, pause_flag, state_file, raised, settings, profiles, files, cancel_running, notified, metrics, threads, locks>>

\* jobs.cancel
cancel(id) ==
    /\ cancel_flags[id] # "none"
    /\ cancel_flags' = [cancel_flags EXCEPT ![id] = "set"]
    /\ cancel_running' = IF id \in DOMAIN jobs /\ jobs[id].status = "running"
                         THEN cancel_running \cup {id} ELSE cancel_running
    /\ UNCHANGED <<jobs, mirror, chapters, job_queue, assembly_queue, pause_flag, state_file, raised, settings, profiles, worker,
                   files, nextId, held, notified, metrics, threads, locks>>

\* web.cancel_pending (clear_job_queue, then cancel every queued / running job)
cancel_pending ==
    LET hit == {i \in DOMAIN jobs : jobs[i].status \in {"queued", "running"}}
        u == [status |-> "cancelled", progress |-> 0, started_at |-> FALSE,
              log |-> "Cancelled by user."]
    IN /\ job_queue' = <<>>
       /\ assembly_queue' = <<>>
       /\ cancel_flags' = [i \in JobIds |->
              IF i \in hit /\ jobs[i].status = "running" /\ cancel_flags[i] # "none"
              THEN "set" ELSE cancel_flags[i]]
       /\ jobs' = [i \in DOMAIN jobs |-> IF i \in hit THEN Upd(jobs[i], u) ELSE jobs[i]]
       /\ mirror' = [i \in DOMAIN mirror |->
              IF i \in hit THEN [mirror[i] EXCEPT !.status = "cancelled"] ELSE mirror[i]]
       /\ chapters' = ChaptersOfHit(mirror, chapters, hit, "cancelled")
       /\ cancel_running' = cancel_running \cup
              {i \in hit : jobs[i].status = "running" /\ cancel_flags[i] # "none"}
       /\ UNCHANGED <<pause_flag, state_file, raised, settings, profiles, worker, files, nextId, held, notified, metrics, threads, locks>>

\* web.reset_chapter
reset_chapter(t) ==
    LET hit == {i \in DOMAIN jobs : jobs[i].target = t}
        u == [status |-> "cancelled", progress |-> 0, output_wav |-> FALSE,
              output_mp3 |-> FALSE, log |-> "Audio reset by user.",
              error |-> "None", warning_count |-> 0]
    IN /\ cancel_flags' = [i \in JobIds |->
              IF i \in hit /\ cancel_flags[i] # "none" THEN "set" ELSE cancel_flags[i]]
       /\ files' = [files EXCEPT !.wav_legacy = @ \ {t}, !.mp3_legacy = @ \ {t}]
       /\ jobs' = [i \in DOMAIN jobs |-> IF i \in hit THEN Upd(jobs[i], u) ELSE jobs[i]]
       /\ mirror' = [i \in DOMAIN mirror |->
              IF i \in hit THEN [mirror[i] EXCEPT !.status = "cancelled"] ELSE mirror[i]]
       /\ chapters' = ChaptersOfHit(mirror, chapters, hit, "cancelled")
       /\ cancel_running' = cancel_running \cup
              {i \in hit : jobs[i].status = "running" /\ cancel_flags[i] # "none"}
       /\ UNCHANGED <<job_queue, assembly_queue, pause_flag, state_file, raised, settings, profiles, worker, nextId, held, notified, metrics, threads, locks>>

\* web.clear_history: terminate_all_subprocesses (the engines then return on
\* their own), clear_job_queue, clear_all_jobs
clear_history ==
    /\ job_queue' = <<>>
    /\ assembly_queue' = <<>>
    /\ jobs' = <<>>
    /\ UNCHANGED <<mirror, chapters, cancel_flags, pause_flag, state_file, raised, settings, profiles,
                   worker, files, nextId, held, cancel_running, notified, metrics, threads, locks>>

\* web.api_remove_from_queue -> db.remove_from_queue
remove_from_queue(id) ==
    /\ id \in DOMAIN mirror
    /\ chapters' = [chapters EXCEPT ![mirror[id].target] = "unprocessed"]
    /\ mirror' = [i \in (DOMAIN mirror) \ {id} |-> mirror[i]]
    /\ UNCHANGED <<jobs, job_queue, assembly_queue, cancel_flags, pause_flag,
                   state_file, raised, settings, profiles, worker, files, nextId, held, cancel_running, notified, metrics, threads, locks>>

\* web.pause_queue -> jobs.set_paused(True)
pause ==
    /\ ~pause_flag
    /\ pause_flag' = TRUE
    /\ UNCHANGED <<jobs, mirror, chapters, job_queue, assembly_queue, cancel_flags, worker,
                   files, nextId, held, cancel_running, state_file, raised, settings, profiles, notified, metrics, threads, locks>>

\* web.resume_queue -> jobs.set_paused(False)
resume ==
    /\ pause_flag
    /\ pause_flag' = FALSE
    /\ held' = {}
    /\ UNCHANGED <<jobs, mirror, chapters, job_queue, assembly_queue, cancel_flags, worker,
                   files, nextId, cancel_running, state_file, raised, settings, profiles, notified, metrics, threads, locks>>

\* ------------------------------------------------------------ worker_loop
Min(a, b) == IF a < b THEN a ELSE b

SetWorker(w, rec) == worker' = [worker EXCEPT ![w] = rec]

\* variant of q.get() that hands out the id put last
dequeue_newest_first(w) ==
    LET q == QueueOf(w)
        id == q[Len(q)]
        rest == SubSeq(q, 1, Len(q) - 1)
    IN /\ worker[w].pc = "idle"
       /\ q # <<>>
       /\ job_queue' = IF w = "synthesis" THEN rest ELSE job_queue
       /\ assembly_queue' = IF w = "assembly" THEN rest ELSE assembly_queue
       /\ IF id \in DOMAIN jobs
          THEN SetWorker(w, [pc |-> "gate", jid |-> id,
                   j |-> [engine |-> jobs[id].engine, kind |-> jobs[id].kind,
                          target |-> jobs[id].target, project |-> jobs[id].project,
                          bypass_pause |-> jobs[id].bypass_pause,
                          make_mp3 |-> jobs[id].make_mp3,
                          warning_count |-> jobs[id].warning_count,
                          progress |-> 0, last_broadcast_p |-> 0, logs |-> 0],
                   cancel_ev |-> "none", groups_completed |-> 0,
                   chars |-> 0, perf |-> <<>>, actual_dur |-> 0])
          ELSE UNCHANGED worker
       /\ UNCHANGED <<jobs, mirror, chapters, cancel_flags, pause_flag, state_file, raised, settings, profiles,
                      files, nextId, held, cancel_running, notified, metrics, threads, locks>>

\* jid = q.get(); j = get_jobs().get(jid); if not j: continue
dequeue(w) ==
    LET q == QueueOf(w)
        id == Head(q)
    IN /\ worker[w].pc = "idle"
       /\ q # <<>>
       /\ job_queue' = IF w = "synthesis" THEN Tail(q) ELSE job_queue
       /\ assembly_queue' = IF w = "assembly" THEN Tail(q) ELSE assembly_queue
       /\ IF id \in DOMAIN jobs
          THEN SetWorker(w, [pc |-> "gate", jid |-> id,
                   j |-> [engine |-> jobs[id].engine, kind |-> jobs[id].kind,
                          target |-> jobs[id].target, project |-> jobs[id].project,
                          bypass_pause |-> jobs[id].bypass_pause,
                          make_mp3 |-> jobs[id].make_mp3,
                          warning_count |-> jobs[id].warning_count,
                          progress |-> 0, last_broadcast_p |-> 0, logs |-> 0],
                   cancel_ev |-> "none", groups_completed |-> 0,
                   chars |-> 0, perf |-> <<>>, actual_dur |-> 0])
          ELSE UNCHANGED worker
       /\ UNCHANGED <<jobs, mirror, chapters, cancel_flags, pause_flag, state_file, raised, settings, profiles, files, nextId, held, cancel_running, notified, metrics, threads, locks>>

\* variant of the gate condition without the exemption of the assembly engine
GateBlocked_all_engines(w) ==
    /\ pause_flag
    /\ ~worker[w].j.bypass_pause

\* variant of the gate condition with the bypass test inverted
GateBlocked_bypass_inverted(w) ==
    /\ pause_flag
    /\ worker[w].j.bypass_pause
    /\ worker[w].j.engine # "audiobook"

\* while pause_flag.is_set() and not j.bypass_pause and j.engine != "audiobook"
GateBlocked(w) ==
    /\ pause_flag
    /\ ~worker[w].j.bypass_pause
    /\ worker[w].j.engine # "audiobook"

\* the worker's cancel_ev.is_set()
CancelSet(w) ==
    IF worker[w].cancel_ev = "registry"
    THEN cancel_flags[worker[w].jid] = "set"
    ELSE worker[w].cancel_ev = "set"

\* worker_loop: chars, the character count the prediction and the tuning use
CharCount(fs, j) ==
    IF j.engine = "audiobook" THEN 0
    ELSE IF WorkerTextExists(fs, j) \/ j.kind # "plain" THEN (16)
    ELSE 0

\* the longest run, in time units (a run takes at least one)
MaxDur == 2

\* the weighted moving average of the tuning: tenths of old and of learned
MovingAverage(old, learned, w_old, w_new) == (old * w_old + learned * w_new) \div 10

\* state.update_performance_metrics(**{field: value})
update_performance_metrics(ms, field, value) == [ms EXCEPT ![field] = value]

\* time.time() moves on while the engine runs
time_passes(w) ==
    /\ worker[w].pc = "engine"
    /\ worker[w].actual_dur < MaxDur
    /\ SetWorker(w, [worker[w] EXCEPT !.actual_dur = @ + 1])
    /\ UNCHANGED <<jobs, mirror, chapters, job_queue, assembly_queue, cancel_flags,
                   pause_flag, state_file, raised, settings, profiles, files, nextId,
                   held, cancel_running, notified, metrics, threads, locks>>

\* the gate is passed: cancel_ev is taken and the job is written running
start(w) ==
    LET id == worker[w].jid
        u == [status |-> "running", started_at |-> TRUE, finished_at |-> FALSE,
              progress |-> 0, error |-> "None", log |-> "Job Started"]
    IN /\ worker[w].pc = "gate"
       /\ ~GateBlocked(w)
       /\ cancel_flags' = [cancel_flags EXCEPT
                              ![id] = IF @ = "none" THEN "clear" ELSE @]
       /\ jobs' = update_job(jobs, id, u)
       /\ mirror' = update_job_mirror(jobs, mirror, id, u)
       /\ chapters' = update_job_chapters(jobs, mirror, chapters, id, u)
       /\ SetWorker(w, [worker[w] EXCEPT !.pc = "started", !.cancel_ev = "registry",
                            !.j.logs = 1,
                            !.chars = CharCount(files, worker[w].j),
                            !.perf = IF worker[w].j.engine = "audiobook"
                                        \/ CharCount(files, worker[w].j) > 0
                                     THEN metrics ELSE <<>>,
                            !.actual_dur = 1])
       /\ UNCHANGED <<job_queue, assembly_queue, pause_flag, state_file, raised, settings, profiles, files, nextId, held, cancel_running, notified, metrics, threads, locks>>

\* a final update_job of the turn, then back to q.get()
Finish(w, u) ==
    /\ jobs' = update_job(jobs, worker[w].jid, u)
    /\ mirror' = update_job_mirror(jobs, mirror, worker[w].jid, u)
    /\ chapters' = update_job_chapters(jobs, mirror, chapters, worker[w].jid, u)
    /\ SetWorker(w, IdleWorker)
    /\ cancel_running' = cancel_running \ {worker[w].jid}

\* the safety checks after the running write (missing text, output already there)
check(w) ==
    LET j == worker[w].j
    IN /\ worker[w].pc = "started"
       /\ IF j.engine # "audiobook" /\ ~WorkerTextExists(files, j) /\ j.kind = "plain"
          THEN Finish(w, [status |-> "failed", finished_at |-> TRUE, progress |-> 100,
                          error |-> "Chapter file not found"])
          ELSE IF _output_exists(files, j.engine, j.target, j.project, j.make_mp3)
          THEN Finish(w, [status |-> "done", finished_at |-> TRUE, progress |-> 100,
                          log |-> "Skipped: output already exists."])
          ELSE /\ SetWorker(w, [worker[w] EXCEPT !.pc =
                      IF j.kind = "segments" /\ CancelSet(w) THEN "seg_done"
                      ELSE "engine"])
               /\ UNCHANGED <<jobs, mirror, chapters, cancel_running>>
       /\ UNCHANGED <<job_queue, assembly_queue, cancel_flags, pause_flag, state_file, raised, settings, profiles, files,
                      nextId, held, notified, metrics, threads, locks>>

\* prediction floor: min(0.98, max(current_p, elapsed / max(1, eta)))
Projection(current_p, tp) == Min(98, (IF current_p > tp THEN current_p ELSE tp))

\* on_output(""): the heartbeat tick of run_cmd_stream.  Result: the local j
\* and the store after the call.
heartbeat(j, js, id, tp, thirty) ==
    LET prog == Projection(j.progress, tp)
    IN IF (prog - j.last_broadcast_p >= 1) \/ thirty
       THEN [j |-> [j EXCEPT !.progress = prog, !.last_broadcast_p = prog],
             js |-> update_job(js, id, [progress |-> prog])]
       ELSE [j |-> j, js |-> js]

\* on_output(line) for a line that is not filtered out.  pct is the tqdm
\* percentage (-1: not a progress line), warn: a long-sentence warning,
\* logged: the line is appended to the log.
on_output(j, js, id, pct, warn, logged, tp) ==
    LET is_progress_line == pct >= 0
        j1 == IF ~is_progress_line /\ warn
              THEN [j EXCEPT !.warning_count = Min(MaxWarn, @ + 1)] ELSE j
        js1 == IF ~is_progress_line /\ warn
               THEN update_job(js, id, [warning_count |-> j1.warning_count]) ELSE js
        new_log == ~is_progress_line /\ logged
        new_progress == IF is_progress_line /\ pct > j.progress THEN pct
                        ELSE Projection(j.progress, tp)
        broadcast_p == j.last_broadcast_p
        diff == IF new_progress >= broadcast_p THEN new_progress - broadcast_p
                ELSE broadcast_p - new_progress
        include_progress == (diff >= 1) \/ (broadcast_p = 0 /\ new_progress > 0)
        j1l == IF new_log THEN [j1 EXCEPT !.logs = Min(MaxLogs, @ + 1)] ELSE j1
        j2 == IF include_progress
              THEN [j1l EXCEPT !.progress = new_progress,
                               !.last_broadcast_p = new_progress]
              ELSE j1l
        js2 == IF include_progress
               THEN update_job(js1, id, [progress |-> new_progress]) ELSE js1
        js3 == IF new_log
               THEN update_job(js2, id, [log |-> "logs",
                                         log_len |-> Min(LogBound, j1l.logs)])
               ELSE js2
    IN [j |-> j2, js |-> js3]

EnginePhase(w) == worker[w].pc \in {"engine", "mp3"}

\* run_cmd_stream sends an empty tick
engine_tick(w) ==
    \E tp \in TimeVals, thirty \in BOOLEAN :
       LET r == heartbeat(worker[w].j, jobs, worker[w].jid, tp, thirty)
       IN /\ EnginePhase(w)
          /\ r.js # jobs \/ r.j # worker[w].j
          /\ jobs' = r.js
          /\ SetWorker(w, [worker[w] EXCEPT !.j = r.j])
          /\ UNCHANGED <<mirror, chapters, job_queue, assembly_queue, cancel_flags, pause_flag, state_file, raised, settings, profiles,
                         files, nextId, held, cancel_running, notified, metrics, threads, locks>>

\* run_cmd_stream passes a line of engine output on
engine_line(w) ==
    \E pct \in ({50, 100}) \cup {-1}, warn \in BOOLEAN, logged \in BOOLEAN, tp \in TimeVals :
       LET r == on_output(worker[w].j, jobs, worker[w].jid, pct, warn, logged, tp)
       IN /\ EnginePhase(w)
          /\ pct >= 0 => (~warn /\ ~logged)
          /\ r.js # jobs \/ r.j # worker[w].j
          /\ jobs' = r.js
          /\ SetWorker(w, [worker[w] EXCEPT !.j = r.j])
          /\ UNCHANGED <<mirror, chapters, job_queue, assembly_queue, cancel_flags, pause_flag, state_file, raised, settings, profiles,
                         files, nextId, held, cancel_running, notified, metrics, threads, locks>>

\* the directory the worker writes audio to (pdir)
AddWav(fs, j) == IF j.project THEN [fs EXCEPT !.wav_project = @ \cup {j.target}]
                 ELSE [fs EXCEPT !.wav_legacy = @ \cup {j.target}]
\* out_wav.exists()
OutWavExists(fs, j) == IF j.project THEN j.target \in fs.wav_project
                       ELSE j.target \in fs.wav_legacy

\* assemble_audiobook returned: rc = 1 when the wrapper saw the token
assembly_finish(w) ==
    \E ok \in BOOLEAN :
       /\ worker[w].pc = "engine"
       /\ worker[w].j.engine = "audiobook"
       /\ ok => ~CancelSet(w)
       /\ IF ok
          THEN /\ files' = (
                IF worker[w].j.project THEN [files EXCEPT !.m4b_project = @ \cup {worker[w].j.target}]
                ELSE [files EXCEPT !.m4b_legacy = @ \cup {worker[w].j.target}])
               /\ metrics' = (
                     update_performance_metrics(metrics, "audiobook_speed_multiplier",
                         MovingAverage(worker[w].perf.audiobook_speed_multiplier,
                                       worker[w].actual_dur * 10, 6, 4)))
               /\ Finish(w, [status |-> "done", finished_at |-> TRUE, progress |-> 100,
                             output_mp3 |-> TRUE, log |-> "logs", log_len |-> worker[w].j.logs])
          ELSE /\ files' = files
               /\ metrics' = metrics
               /\ Finish(w, [status |-> "failed", finished_at |-> TRUE, progress |-> 100,
                             error |-> "Audiobook assembly failed", log |-> "logs", log_len |-> worker[w].j.logs])
       /\ UNCHANGED <<job_queue, assembly_queue, cancel_flags, pause_flag, state_file, raised, settings, profiles, nextId, held, notified, threads, locks>>

\* xtts_generate / xtts_generate_script returned (single-speaker or script mode),
\* then the cancel check, the failure check and the 0.99 mark before the MP3 step
synthesis_finish(w) ==
    \E ok \in BOOLEAN, wrote \in BOOLEAN :
       LET j == worker[w].j
           fs == IF ok \/ wrote THEN AddWav(files, j) ELSE files
       IN /\ worker[w].pc = "engine"
          /\ j.engine = "xtts" /\ j.kind = "plain"
          /\ ok => ~CancelSet(w)
          /\ files' = fs
          /\ metrics' = IF ~CancelSet(w) /\ ok /\ OutWavExists(fs, j)
                            /\ worker[w].chars > 0 /\ worker[w].actual_dur > 0
                         THEN (
                               update_performance_metrics(metrics, "xtts_cps",
                                   MovingAverage(worker[w].perf.xtts_cps,
                                                 worker[w].chars \div worker[w].actual_dur, 8, 2))) ELSE metrics
          /\ IF CancelSet(w)
             THEN Finish(w, [status |-> "cancelled", finished_at |-> TRUE,
                             progress |-> 100, error |-> "Cancelled.", log |-> "logs", log_len |-> worker[w].j.logs])
             ELSE IF ~ok \/ ~OutWavExists(fs, j)
             THEN Finish(w, [status |-> "failed", finished_at |-> TRUE, progress |-> 100,
                             log |-> "logs", log_len |-> worker[w].j.logs, error |-> "Generation failed"])
             ELSE IF j.make_mp3
             THEN /\ jobs' = update_job(jobs, worker[w].jid,
                                        [progress |-> 99, log |-> "logs",
                                         log_len |-> Min(LogBound, j.logs)])
                  /\ SetWorker(w, [worker[w] EXCEPT !.pc = "mp3"])
                  /\ UNCHANGED <<mirror, chapters, cancel_running>>
             ELSE Finish(w, [status |-> "done", finished_at |-> TRUE, progress |-> 100,
                             output_wav |-> TRUE, log |-> "logs", log_len |-> worker[w].j.logs])
          /\ UNCHANGED <<job_queue, assembly_queue, cancel_flags, pause_flag, state_file, raised, settings, profiles, nextId, held, notified, threads, locks>>

\* wav_to_mp3 returned: frc = 1 when the wrapper saw the token
mp3_finish(w) ==
    \E ok \in BOOLEAN :
       /\ worker[w].pc = "mp3"
       /\ ok => ~CancelSet(w)
       /\ IF ok
          THEN /\ files' = (
                IF worker[w].j.project THEN [files EXCEPT !.mp3_project = @ \cup {worker[w].j.target}]
                ELSE [files EXCEPT !.mp3_legacy = @ \cup {worker[w].j.target}])
               /\ Finish(w, [status |-> "done", finished_at |-> TRUE, progress |-> 100,
                             output_wav |-> TRUE, output_mp3 |-> TRUE, log |-> "logs",
                             log_len |-> Min(MaxLogs, worker[w].j.logs + 1)])
          ELSE /\ files' = files
               /\ Finish(w, [status |-> "done", finished_at |-> TRUE, progress |-> 100,
                             output_wav |-> TRUE, log |-> "logs",
                             log_len |-> Min(MaxLogs, worker[w].j.logs + 1),
                             error |-> "MP3 conversion failed"])
       /\ UNCHANGED <<job_queue, assembly_queue, cancel_flags, pause_flag, state_file, raised, settings, profiles, nextId, held, notified, metrics, threads, locks>>

\* bake_on_output: a [SEGMENT_SAVED] line of the bake script
bake_group_saved(w) ==
    \E tp \in TimeVals :
       LET id == worker[w].jid
           r == on_output(worker[w].j, jobs, id, -1, FALSE, TRUE, tp)
           n == worker[w].groups_completed + 1
       IN /\ worker[w].pc = "engine"
          /\ worker[w].j.kind = "bake"
          /\ n <= NumGroups
          /\ jobs' = update_job(r.js, id, [progress |-> (n * 90) \div NumGroups])
          /\ SetWorker(w, [worker[w] EXCEPT !.j = r.j, !.groups_completed = n])
          /\ UNCHANGED <<mirror, chapters, job_queue, assembly_queue, cancel_flags, pause_flag, state_file, raised, settings, profiles,
                         files, nextId, held, cancel_running, notified, metrics, threads, locks>>

\* the end of a chapter bake: "if cancel_check(): continue", else the stitch
bake_finish(w) ==
    \E outcome \in {"continue", "no segments", "stitch failed", "stitched"} :
       /\ worker[w].pc = "engine"
       /\ worker[w].j.kind = "bake"
       /\ CancelSet(w) => outcome \in {"continue", "stitch failed"}
       /\ ~CancelSet(w) => outcome # "continue"
       /\ IF outcome = "continue"
          THEN /\ SetWorker(w, IdleWorker)
               /\ cancel_running' = cancel_running \ {worker[w].jid}
               /\ UNCHANGED <<jobs, mirror, chapters, files>>
          ELSE IF outcome = "no segments"
          THEN /\ files' = files
               /\ Finish(w, [status |-> "failed", finished_at |-> TRUE,
                             error |-> "No valid audio segments"])
          ELSE IF outcome = "stitch failed"
          THEN /\ files' = files
               /\ Finish(w, [status |-> "failed", finished_at |-> TRUE,
                             error |-> "Stitching failed"])
          ELSE /\ files' = AddWav(files, worker[w].j)
               /\ Finish(w, [status |-> "done", finished_at |-> TRUE, progress |-> 100,
                             output_wav |-> TRUE])
       /\ UNCHANGED <<job_queue, assembly_queue, cancel_flags, pause_flag, state_file, raised, settings, profiles, nextId, held, notified, metrics, threads, locks>>

\* segment generation: one batch ends, update_job(progress=(g_idx+1)/total_groups),
\* then the loop head (break when cancelled or after the last batch)
segment_batch_done(w) ==
    LET n == worker[w].groups_completed + 1
    IN /\ worker[w].pc = "engine"
       /\ worker[w].j.kind = "segments"
       /\ jobs' = update_job(jobs, worker[w].jid, [progress |-> (n * 100) \div NumGroups])
       /\ SetWorker(w, [worker[w] EXCEPT !.groups_completed = n,
                           !.pc = IF n = NumGroups \/ CancelSet(w) THEN "seg_done"
                                  ELSE "engine"])
       /\ UNCHANGED <<mirror, chapters, job_queue, assembly_queue, cancel_flags, pause_flag, state_file, raised, settings, profiles,
                      files, nextId, held, cancel_running, notified, metrics, threads, locks>>

\* segment generation: update_job(status="done") after the loop
segments_finish(w) ==
    /\ worker[w].pc = "seg_done"
    /\ Finish(w, [status |-> "done", finished_at |-> TRUE, progress |-> 100])
    /\ UNCHANGED <<job_queue, assembly_queue, cancel_flags, pause_flag, state_file, raised, settings, profiles, files,
                   nextId, held, notified, metrics, threads, locks>>

\* variant of the handler in which the exception ends the worker thread
worker_exception_ends_thread(w) ==
    /\ worker[w].pc \in {"started", "engine", "mp3", "seg_done"}
    /\ jobs' = update_job(jobs, worker[w].jid,
                          [status |-> "failed", finished_at |-> TRUE, progress |-> 100,
                           error |-> "Worker crashed", log |-> "traceback"])
    /\ SetWorker(w, [worker[w] EXCEPT !.pc = "dead"])
    /\ UNCHANGED <<mirror, chapters, cancel_running, job_queue, assembly_queue,
                   cancel_flags, pause_flag, state_file, raised, settings, profiles,
                   files, nextId, held, notified, metrics, threads, locks>>

\* except Exception: the per-job body raised
worker_exception(w) ==
    /\ worker[w].pc \in {"started", "engine", "mp3", "seg_done"}
    /\ Finish(w, [status |-> "failed", finished_at |-> TRUE, progress |-> 100,
                  error |-> "Worker crashed", log |-> "traceback"])
    /\ UNCHANGED <<job_queue, assembly_queue, cancel_flags, pause_flag, state_file, raised, settings, profiles, files,
                   nextId, held, notified, metrics, threads, locks>>

\* ------------------------------------------------------------ Reconciler
RECURSIVE SeqOfSet(_)
\* ids in the iteration order of the jobs dict (creation order)
SeqOfSet(S) ==
    IF S = {} THEN <<>>
    ELSE LET m == CHOOSE x \in S : \A y \in S : x <= y
         IN <<m>> \o SeqOfSet(S \ {m})

\* web.output_exists("xtts", c): an MP3 or a WAV in XTTS_OUT_DIR
output_exists(fs, c) == c \in fs.mp3_legacy \/ c \in fs.wav_legacy

\* variant of the per-chapter step that always creates a new job and leaves the
\* chapter's old records in place
start_xtts_chapter_no_prune(st, existing, c, paused) ==
    IF output_exists(files, c)
       \/ (\E i \in DOMAIN existing : /\ existing[i].engine = "xtts"
                                       /\ existing[i].target = c
                                       /\ existing[i].status = "running")
    THEN st
    ELSE [js |-> put_job(st.js, st.n, NewJob("xtts", "plain", c, FALSE, FALSE, TRUE)),
          q |-> Append(st.q, st.n),
          n |-> st.n + 1,
          cf |-> [st.cf EXCEPT ![st.n] = "clear"],
          h |-> IF paused THEN st.h \cup {st.n} ELSE st.h]

\* web.start_xtts_queue: the body of the loop for chapter c.  existing is the
\* get_jobs() snapshot of the handler, st the store, synthesis queue, next id,
\* cancel registry and held set so far.
start_xtts_chapter(st, existing, c, paused) ==
    LET same == {i \in DOMAIN existing : existing[i].target = c
                                          /\ existing[i].engine = "xtts"}
        queued == {i \in same : existing[i].status = "queued"}
        to_del == same \ queued
        js1 == delete_jobs(st.js, to_del)
        existing_queued_id == CHOOSE i \in queued : \A k \in queued : k <= i
        u == [progress |-> 0, started_at |-> FALSE, finished_at |-> FALSE,
              log |-> "", log_len |-> 0, error |-> "None", warning_count |-> 0]
    IN IF output_exists(files, c)
          \/ (\E i \in same : existing[i].status = "running")
       THEN st
       ELSE IF queued # {}
       THEN [st EXCEPT !.js = update_job(js1, existing_queued_id, u),
                       !.q = IF existing_queued_id \in DOMAIN js1
                             THEN Append(st.q, existing_queued_id) ELSE st.q]
       ELSE [js |-> put_job(js1, st.n, NewJob("xtts", "plain", c, FALSE, FALSE, TRUE)),
             q |-> Append(st.q, st.n),
             n |-> st.n + 1,
             cf |-> [st.cf EXCEPT ![st.n] = "clear"],
             h |-> IF paused THEN st.h \cup {st.n} ELSE st.h]

RECURSIVE start_xtts_loop(_, _, _, _)
\* web.start_xtts_queue: for p in legacy_list_chapters()
start_xtts_loop(cs, st, existing, paused) ==
    IF cs = <<>> THEN st
    ELSE start_xtts_loop(Tail(cs), start_xtts_chapter(st, existing, Head(cs), paused),
                         existing, paused)

\* web.start_xtts_queue
start_xtts_queue ==
    LET st == start_xtts_loop(SeqOfSet(files.text_legacy),
                  [js |-> jobs, q |-> job_queue, n |-> nextId, cf |-> cancel_flags,
                   h |-> held],
                  jobs, pause_flag)
    IN /\ st.n <= MaxJobs + 1
       /\ Len(st.q) <= MaxQueue
       /\ jobs' = st.js
       /\ job_queue' = st.q
       /\ nextId' = st.n
       /\ cancel_flags' = st.cf
       /\ held' = st.h
       /\ UNCHANGED <<mirror, chapters, assembly_queue, pause_flag, state_file, raised, settings, profiles,
                      worker, files, cancel_running, notified, metrics, threads, locks>>

\* variant of the prune pass that looks for a project job's text in the project
\* directory only
StaleIds_project_dir_only(js, fs) ==
    {i \in DOMAIN js :
        IF js[i].engine # "audiobook"
        THEN ~WorkerTextExists(fs, js[i])
        ELSE js[i].status = "done" /\ js[i].target \notin fs.m4b_legacy}

\* cleanup_and_reconcile pass 1: the ids pruned
StaleIds(js, fs) ==
    {i \in DOMAIN js :
        IF js[i].engine # "audiobook"
        THEN ~ReconcileTextExists(fs, js[i])
        ELSE js[i].status = "done" /\ js[i].target \notin fs.m4b_legacy}

\* cleanup_and_reconcile pass 2: the done jobs whose audio is missing
ResetIds(js, fs) ==
    {i \in DOMAIN js :
        /\ js[i].status = "done"
        /\ js[i].engine # "audiobook"
        /\ ~_output_exists(fs, js[i].engine, js[i].target, js[i].project, js[i].make_mp3)}

\* variant of pass 2 without the forward-sync of the jobs whose audio exists
SyncedIds_none(js, fs) == {}

\* cleanup_and_reconcile pass 2: the done jobs whose audio exists (forward-sync)
SyncedIds(js, fs) ==
    {i \in DOMAIN js :
        /\ js[i].status = "done"
        /\ js[i].engine # "audiobook"
        /\ _output_exists(fs, js[i].engine, js[i].target, js[i].project, js[i].make_mp3)}

\* variant of the reset that only writes the status
ResetFields_status_only ==
    [status |-> "queued"]

\* the update_job of the reset
ResetFields ==
    [status |-> "queued", output_mp3 |-> FALSE, output_wav |-> FALSE, progress |-> 0,
     started_at |-> FALSE, finished_at |-> FALSE,
     log |-> "Reconcliation: Output missing, resetting to queued.",
     error |-> "None", warning_count |-> 0]

\* jobs.cleanup_and_reconcile: the store, mirror, chapters and synthesis queue
\* it leaves when called on the store js, the rows m, the chapters ch and the
\* queue q
ReconciledOn(js, m, ch, q) ==
    LET stale == StaleIds(js, files)
        js1 == delete_jobs(js, stale)
        reset == ResetIds(js1, files)
        synced == SyncedIds(js1, files)
    IN [reset |-> reset,
        jobs |-> [i \in DOMAIN js1 |->
                      IF i \in reset THEN Upd(js1[i], ResetFields) ELSE js1[i]],
        mirror |-> [i \in DOMAIN m |->
                      IF i \in reset THEN [m[i] EXCEPT !.status = "queued"]
                      ELSE IF i \in synced THEN [m[i] EXCEPT !.status = "done"]
                      ELSE m[i]],
        \* the last job of the pass that maps to a chapter decides its audio_status
        chapters |-> [t \in Targets |->
              LET rows == {i \in (reset \cup synced) \cap DOMAIN m :
                              m[i].target = t}
              IN IF rows = {} THEN ch[t]
                 ELSE IF (CHOOSE i \in rows : \A k \in rows : k <= i) \in reset
                 THEN "processing" ELSE "done"],
        job_queue |-> q \o SeqOfSet(reset)]

\* jobs.cleanup_and_reconcile called in the current state
Reconciled == ReconciledOn(jobs, mirror, chapters, job_queue)

\* jobs.cleanup_and_reconcile (web.api_jobs calls it before every listing)
cleanup_and_reconcile ==
    /\ Len(job_queue) + Cardinality(Reconciled.reset) <= MaxQueue
    /\ jobs' = Reconciled.jobs
    /\ mirror' = Reconciled.mirror
    /\ chapters' = Reconciled.chapters
    /\ job_queue' = Reconciled.job_queue
    /\ UNCHANGED <<assembly_queue, cancel_flags, pause_flag, state_file, raised, settings, profiles, worker, files,
                   nextId, held, cancel_running, notified, metrics, threads, locks>>

\* web.backfill_mp3_queue: the job matched to an orphaned WAV of stem c (the
\* first record of the store with that chapter file), 0 if there is none
BackfillJob(js, c) ==
    LET cand == {i \in DOMAIN js : js[i].target = c}
    IN IF cand = {} THEN 0 ELSE CHOOSE i \in cand : \A k \in cand : i <= k

\* web.backfill_mp3_queue: cleanup_and_reconcile() (which requeues the jobs it
\* resets), the surgical conversions (ok: those that succeed), then the
\* requeue of the reset ids that were not converted
backfill_mp3_queue ==
    \E ok \in SUBSET (
          {c \in files.wav_legacy \ files.mp3_legacy :
              BackfillJob(Reconciled.jobs, c) # 0 /\ Reconciled.jobs[BackfillJob(Reconciled.jobs, c)].make_mp3}) :
       LET fixed == {BackfillJob(Reconciled.jobs, c) : c \in ok}
           u == [status |-> "done", output_mp3 |-> TRUE, output_wav |-> TRUE,
                 progress |-> 100]
           remaining == Reconciled.reset \ fixed
       IN /\ Len(Reconciled.job_queue) + Cardinality(remaining) <= MaxQueue
          /\ files' = [files EXCEPT !.mp3_legacy = @ \cup ok]
          /\ jobs' = [i \in DOMAIN Reconciled.jobs |->
                         IF i \in fixed THEN Upd(Reconciled.jobs[i], u)
                         ELSE Reconciled.jobs[i]]
          /\ mirror' = [i \in DOMAIN mirror |->
                         IF i \in fixed THEN [Reconciled.mirror[i] EXCEPT !.status = "done"]
                         ELSE Reconciled.mirror[i]]
          /\ chapters' = [t \in Targets |->
                         IF \E i \in fixed \cap DOMAIN mirror : mirror[i].target = t
                         THEN "done" ELSE Reconciled.chapters[t]]
          /\ job_queue' = Reconciled.job_queue \o SeqOfSet(remaining)
          /\ UNCHANGED <<assembly_queue, cancel_flags, pause_flag, state_file, raised, settings, profiles,
                         worker, nextId, held, cancel_running, notified, metrics, threads, locks>>

\* variant of the mirror repair that leaves every row as it is
reconcile_queue_status_none(m, active_ids) == m

\* db.reconcile_queue_status: the rows queued or running whose id is not
\* among active_ids become cancelled
reconcile_queue_status(m, active_ids) ==
    [i \in DOMAIN m |->
        IF m[i].status \in {"queued", "running"} /\ i \notin active_ids
        THEN [m[i] EXCEPT !.status = "cancelled"] ELSE m[i]]

\* web.startup_event: the store, mirror and chapters it leaves when the
\* process is started on the current persisted state
Restarted ==
    LET hit == {i \in DOMAIN jobs : jobs[i].status \in {"queued", "running"}}
        u == [status |-> "cancelled", progress |-> 0, started_at |-> FALSE,
              log |-> "Reset on startup.", finished_at |-> FALSE,
              error |-> "Restarted", warning_count |-> 0]
        \* update_job's forward-sync of every reset job
        m1 == [i \in DOMAIN mirror |->
                  IF i \in hit THEN [mirror[i] EXCEPT !.status = "cancelled"]
                  ELSE mirror[i]]
    IN [jobs |-> [i \in DOMAIN jobs |-> IF i \in hit THEN Upd(jobs[i], u) ELSE jobs[i]],
        mirror |-> reconcile_queue_status(m1, DOMAIN jobs),
        \* reconcile_queue_status: chapters of every cancelled row without a job
        chapters |-> [t \in Targets |->
              IF \E i \in DOMAIN mirror :
                    /\ mirror[i].target = t
                    /\ \/ i \in hit
                       \/ (i \notin DOMAIN jobs
                           /\ mirror[i].status \in {"queued", "running", "cancelled"})
              THEN "unprocessed" ELSE chapters[t]]]

\* variant of restart that re-populates the in-memory queues from the persisted
\* state, as the comment heading startup_event announces
restart_repopulating ==
    LET hit == {i \in DOMAIN jobs : jobs[i].status \in {"queued", "running"}}
        u == [status |-> "cancelled", progress |-> 0, started_at |-> FALSE,
              log |-> "Reset on startup.", finished_at |-> FALSE,
              error |-> "Restarted", warning_count |-> 0]
    IN /\ job_queue' = SeqOfSet({i \in hit : jobs[i].engine # "audiobook"})
       /\ assembly_queue' = SeqOfSet({i \in hit : jobs[i].engine = "audiobook"})
       /\ cancel_flags' = [i \in JobIds |-> "none"]
       /\ pause_flag' = FALSE
       /\ worker' = [w \in Pools |-> IdleWorker]
       /\ held' = {}
       /\ cancel_running' = {}
       /\ jobs' = [i \in DOMAIN jobs |-> IF i \in hit THEN Upd(jobs[i], u) ELSE jobs[i]]
       /\ mirror' = [i \in DOMAIN mirror |->
                      IF i \in hit
                         \/ (mirror[i].status \in {"queued", "running"}
                             /\ i \notin DOMAIN jobs)
                      THEN [mirror[i] EXCEPT !.status = "cancelled"] ELSE mirror[i]]
       \* reconcile_queue_status: chapters of every cancelled row without a job
       /\ chapters' = [t \in Targets |->
              IF \E i \in DOMAIN mirror :
                    /\ mirror[i].target = t
                    /\ \/ i \in hit
                       \/ (i \notin DOMAIN jobs
                           /\ mirror[i].status \in {"queued", "running", "cancelled"})
              THEN "unprocessed" ELSE chapters[t]]
       /\ UNCHANGED <<files, nextId, state_file, raised, settings, profiles, notified, metrics, threads, locks>>

\* the process is stopped and started again: the in-memory queues, tokens,
\* pause flag and workers are new; web.startup_event runs on the persisted state
restart ==
    /\ job_queue' = <<>>
    /\ assembly_queue' = <<>>
    /\ cancel_flags' = [i \in JobIds |-> "none"]
    /\ pause_flag' = FALSE
    /\ worker' = [w \in Pools |-> IdleWorker]
    /\ held' = {}
    /\ cancel_running' = {}
    /\ jobs' = Restarted.jobs
    /\ mirror' = Restarted.mirror
    /\ chapters' = Restarted.chapters
    /\ UNCHANGED <<files, nextId, state_file, raised, settings, profiles, notified, metrics, threads, locks>>

\* ------------------------------------------------- side effects of update_job
\* the statuses update_job_failing writes (the final writes of a worker turn)
FinalStatuses == {"done", "failed"}
\* state._JOB_LISTENERS, in registration order
ListenerSeq == <<"listener1", "listener2">>
Listeners == {ListenerSeq[i] : i \in 1..Len(ListenerSeq)}
\* the side effects that can throw: the mirror forward-sync, the queue
\* broadcast, and each listener callback
SideEffects == {"sync", "broadcast"} \cup Listeners

\* variant of the listener loop that stops at the first callback that throws
ListenersCalled_until_failure(fails) ==
    {ListenerSeq[i] : i \in {n \in 1..Len(ListenerSeq) :
                                \A k \in 1..(n - 1) : ListenerSeq[k] \notin fails}}

\* state.update_job: the callbacks the listener loop calls when those of
\* fails throw (each call is wrapped in try / except Exception)
ListenersCalled(fails) == Listeners

\* state.update_job: whether the mirror row is written when the side effects
\* of fails throw (the broadcast comes after update_queue_item in the same try)
SyncDone(fails) == "sync" \notin fails

\* state.update_job: whether an exception of the side effects of fails leaves
\* update_job (both try blocks catch Exception)
RaisesToCaller(fails) == FALSE

\* state.update_job(job_id, status=...) while the side effects of fails throw:
\* the store, the mirror, the callbacks called and whether the call raises
AfterUpdate(id, status, fails) ==
    [jobs     |-> update_job(jobs, id, [status |-> status]),
     mirror   |-> IF SyncDone(fails)
                  THEN update_job_mirror(jobs, mirror, id, [status |-> status])
                  ELSE mirror,
     chapters |-> IF SyncDone(fails)
                  THEN update_job_chapters(jobs, mirror, chapters, id, [status |-> status])
                  ELSE chapters,
     notified |-> ListenersCalled(fails),
     raised   |-> RaisesToCaller(fails)]

\* state.update_job(job_id, status=...) on an existing record while the side
\* effects of fails throw
update_job_failing(id, status, fails) ==
    /\ id \in DOMAIN jobs
    /\ jobs' = AfterUpdate(id, status, fails).jobs
    /\ mirror' = AfterUpdate(id, status, fails).mirror
    /\ chapters' = AfterUpdate(id, status, fails).chapters
    /\ notified' = AfterUpdate(id, status, fails).notified
    /\ raised' = AfterUpdate(id, status, fails).raised
    /\ UNCHANGED <<job_queue, assembly_queue, cancel_flags, pause_flag, worker, files,
                   nextId, held, cancel_running, state_file, settings, profiles, metrics, threads, locks>>

\* ------------------------------------------------- settings and profiles
\* web.save_settings
save_settings(safe_mode, make_mp3) ==
    /\ settings' = [settings EXCEPT !.safe_mode = safe_mode, !.make_mp3 = make_mp3]
    /\ UNCHANGED <<jobs, mirror, job_queue, assembly_queue, cancel_flags, pause_flag,
                   worker, files, nextId, held, cancel_running, chapters, state_file,
                   raised, profiles, notified, metrics, threads, locks>>

\* web.set_default_speaker
set_default_speaker(name) ==
    /\ settings' = [settings EXCEPT !.default_speaker_profile = name]
    /\ UNCHANGED <<jobs, mirror, job_queue, assembly_queue, cancel_flags, pause_flag,
                   worker, files, nextId, held, cancel_running, chapters, state_file,
                   raised, profiles, notified, metrics, threads, locks>>

\* web.update_speaker_speed
update_speaker_speed(name, speed) ==
    /\ profiles' = [profiles EXCEPT ![name] = speed]
    /\ UNCHANGED <<jobs, mirror, job_queue, assembly_queue, cancel_flags, pause_flag,
                   worker, files, nextId, held, cancel_running, chapters, state_file,
                   raised, settings, notified, metrics, threads, locks>>

\* jobs.get_speaker_wavs / get_speaker_settings: the profile folder looked up
TargetProfile(profile_name) == IF profile_name # 0 THEN profile_name ELSE 1

\* jobs.get_speaker_settings: "speed" (the settings hold no xtts_speed, so the
\* fallback is 1.0; the speed of profile.json wins)
get_speaker_settings(pf, profile_name) ==
    IF pf[TargetProfile(profile_name)] # 0 THEN pf[TargetProfile(profile_name)] ELSE 10

\* worker_loop, xtts branch: the sanitization flag, output format, voice and
\* speed the engine is run with for the record j, under the profiles pf
RunValues(pf, j) ==
    [safe_mode |-> j.safe_mode,
     make_mp3 |-> j.make_mp3,
     speaker_profile |-> TargetProfile(j.speaker_profile),
     speed |-> get_speaker_settings(pf, j.speaker_profile)]

\* ------------------------------------------------- state file on disk
\* conditions of a state.json that does not hold a record set
Unreadable == {"missing", "empty", "garbage", "nonobject"}

\* state._load_state_no_lock: the file after the load and what the load hands
\* to the store operation ("records": the parsed file, "default": the fresh
\* default state, "nonobject": parsed JSON that is not an object)
_load_state_no_lock(sf) ==
    IF sf.main \in {"missing", "empty"}
    THEN [file |-> [sf EXCEPT !.main = "valid"], state |-> "default"]
    ELSE IF sf.main \in {"garbage", "partial"}
    THEN [file |-> [sf EXCEPT !.main = "valid", !.backup = TRUE], state |-> "default"]
    ELSE IF sf.main = "nonobject"
    THEN [file |-> sf, state |-> "nonobject"]
    ELSE [file |-> sf, state |-> "records"]

\* state.get("jobs", {}) / state.setdefault("jobs", {}) on what the load
\* returned: AttributeError when it is not a dict
RaisesOnState(state) == state = "nonobject"

\* the record set a store operation works on after the load
LoadedJobs(state) == IF state = "records" THEN jobs ELSE <<>>

\* state.get_jobs
get_jobs ==
    LET l == _load_state_no_lock(state_file)
    IN /\ state_file.pc = "idle"
       /\ state_file' = l.file
       /\ raised' = RaisesOnState(l.state)
       /\ jobs' = IF RaisesOnState(l.state) THEN jobs ELSE LoadedJobs(l.state)
       /\ UNCHANGED <<mirror, job_queue, assembly_queue, cancel_flags, pause_flag,
                      worker, files, nextId, held, cancel_running, chapters,
                   settings, profiles, notified, metrics, threads, locks>>

\* a store operation up to json.dumps: _STATE_LOCK taken, the state loaded,
\* the new text built (id, status: the forward-sync update_job does after the
\* write, id = 0 when there is none)
StoreBegin(l, text, id, status) ==
    /\ state_file.pc = "idle"
    /\ raised' = RaisesOnState(l.state)
    /\ jobs' = IF RaisesOnState(l.state) THEN jobs ELSE LoadedJobs(l.state)
    /\ state_file' = IF RaisesOnState(l.state) THEN l.file
                      ELSE [l.file EXCEPT
                               !.pending = <<[text |-> text, id |-> id, status |-> status]>>,
                               !.pc = "loaded"]

\* state.put_job, up to the write
put_job_begin(t) ==
    LET l == _load_state_no_lock(state_file)
    IN /\ nextId <= MaxJobs
       /\ StoreBegin(l, put_job(LoadedJobs(l.state), nextId,
                                NewJob("xtts", "plain", t, FALSE, TRUE, TRUE)),
                     0, "queued")
       /\ nextId' = nextId + 1
       /\ UNCHANGED <<mirror, job_queue, assembly_queue, cancel_flags, pause_flag,
                      worker, files, held, cancel_running, chapters,
                   settings, profiles, notified, metrics, threads, locks>>

\* state.update_job(job_id, status=...), up to the write; an unknown id
\* returns before it
update_job_begin(id, status) ==
    LET l == _load_state_no_lock(state_file)
    IN /\ IF RaisesOnState(l.state) \/ id \in DOMAIN LoadedJobs(l.state)
          THEN StoreBegin(l, update_job(LoadedJobs(l.state), id, [status |-> status]),
                          id, status)
          ELSE /\ state_file.pc = "idle"
               /\ state_file' = l.file
               /\ jobs' = LoadedJobs(l.state)
               /\ raised' = FALSE
       /\ UNCHANGED <<mirror, job_queue, assembly_queue, cancel_flags, pause_flag,
                      worker, files, nextId, held, cancel_running, chapters,
                   settings, profiles, notified, metrics, threads, locks>>

\* variant of the write that opens the state file itself
write_text_in_place(sf) == [sf EXCEPT !.main = "partial", !.pc = "writing"]

\* state._atomic_write_text: tmp_path.write_text has opened state.json.tmp
\* and written part of the text
write_text_open(sf) == [sf EXCEPT !.tmp = "partial", !.pc = "writing"]

\* state._atomic_write_text: tmp_path.write_text, first part
write_text_begin ==
    /\ state_file.pc = "loaded"
    /\ state_file' = write_text_open(state_file)
    /\ UNCHANGED <<jobs, mirror, job_queue, assembly_queue, cancel_flags, pause_flag,
                   worker, files, nextId, held, cancel_running, chapters, raised, settings, profiles, notified, metrics, threads, locks>>

\* state._atomic_write_text: tmp_path.write_text returns
write_text_end ==
    /\ state_file.pc = "writing"
    /\ state_file' = [state_file EXCEPT !.tmp = "complete", !.pc = "written"]
    /\ UNCHANGED <<jobs, mirror, job_queue, assembly_queue, cancel_flags, pause_flag,
                   worker, files, nextId, held, cancel_running, chapters, raised, settings, profiles, notified, metrics, threads, locks>>

\* state._atomic_write_text: os.replace(tmp_path, path)
os_replace ==
    /\ state_file.pc = "written"
    /\ state_file' = [state_file EXCEPT !.main = "valid", !.tmp = "none",
                                        !.pc = "replaced"]
    /\ jobs' = state_file.pending[1].text
    /\ UNCHANGED <<mirror, job_queue, assembly_queue, cancel_flags, pause_flag,
                   worker, files, nextId, held, cancel_running, chapters, raised, settings, profiles, notified, metrics, threads, locks>>

\* the rest of the store operation after the write: update_job's forward-sync
\* to the mirror, then the lock is released
store_return ==
    LET w == state_file.pending[1]
    IN /\ state_file.pc = "replaced"
       /\ state_file' = [state_file EXCEPT !.pending = <<>>, !.pc = "idle"]
       /\ mirror' = IF w.id = 0 THEN mirror
                    ELSE update_job_mirror(jobs, mirror, w.id, [status |-> w.status])
       /\ chapters' = IF w.id = 0 THEN chapters
                      ELSE update_job_chapters(jobs, mirror, chapters, w.id,
                                               [status |-> w.status])
       /\ UNCHANGED <<jobs, job_queue, assembly_queue, cancel_flags, pause_flag,
                      worker, files, nextId, held, cancel_running, raised, settings, profiles, notified, metrics, threads, locks>>

\* the process dies inside a store operation and a new one is started: what
\* was in memory is gone, the files stay as they are
crash ==
    /\ state_file.pc # "idle"
    /\ state_file' = [state_file EXCEPT !.pending = <<>>, !.pc = "idle"]
    /\ job_queue' = <<>>
    /\ assembly_queue' = <<>>
    /\ cancel_flags' = [i \in JobIds |-> "none"]
    /\ pause_flag' = FALSE
    /\ worker' = [w \in Pools |-> IdleWorker]
    /\ held' = {}
    /\ cancel_running' = {}
    /\ raised' = FALSE
    /\ UNCHANGED <<jobs, mirror, chapters, files, nextId,
                   settings, profiles, notified, metrics, threads, locks>>

\* something outside the program leaves state.json unreadable
corrupt(kind) ==
    /\ state_file.pc = "idle"
    /\ state_file.main = "valid"
    /\ state_file' = [state_file EXCEPT !.main = kind]
    /\ raised' = FALSE
    /\ UNCHANGED <<jobs, mirror, job_queue, assembly_queue, cancel_flags, pause_flag,
                   worker, files, nextId, held, cancel_running, chapters,
                   settings, profiles, notified, metrics, threads, locks>>

\* ----------------------------------------------------------- environment
\* web.upload: a chapter text file appears in CHAPTER_DIR
upload(t) ==
    /\ t \notin files.text_legacy
    /\ files' = [files EXCEPT !.text_legacy = @ \cup {t}]
    /\ UNCHANGED <<jobs, mirror, chapters, job_queue, assembly_queue, cancel_flags, pause_flag, state_file, raised, settings, profiles,
                   worker, nextId, held, cancel_running, notified, metrics, threads, locks>>

\* files are deleted outside the program
delete_audio(t) ==
    /\ files' = [files EXCEPT !.wav_project = @ \ {t}, !.wav_legacy = @ \ {t},
                              !.mp3_project = @ \ {t}, !.mp3_legacy = @ \ {t},
                              !.m4b_project = @ \ {t}, !.m4b_legacy = @ \ {t}]
    /\ files' # files
    /\ UNCHANGED <<jobs, mirror, chapters, job_queue, assembly_queue, cancel_flags, pause_flag, state_file, raised, settings, profiles,
                   worker, nextId, held, cancel_running, notified, metrics, threads, locks>>

delete_text(t, where) ==
    /\ files' = IF where = "project" THEN [files EXCEPT !.text_project = @ \ {t}]
                ELSE [files EXCEPT !.text_legacy = @ \ {t}]
    /\ files' # files
    /\ UNCHANGED <<jobs, mirror, chapters, job_queue, assembly_queue, cancel_flags, pause_flag, state_file, raised, settings, profiles,
                   worker, nextId, held, cancel_running, notified, metrics, threads, locks>>

Worker ==
    \E w \in Pools :
       \/ dequeue(w)
       \/ start(w)
       \/ check(w)
       \/ engine_tick(w)
       \/ engine_line(w)
       \/ assembly_finish(w)
       \/ synthesis_finish(w)
       \/ mp3_finish(w)
       \/ bake_group_saved(w)
       \/ bake_finish(w)
       \/ segment_batch_done(w)
       \/ segments_finish(w)
       \/ worker_exception(w)
       \/ time_passes(w)

Next ==
    \/ \E t \in Targets : enqueue_single(t)
    \/ \E t \in Targets : api_add_to_queue(t)
    \/ \E t \in Targets : create_audiobook(t)
    \/ \E t \in Targets : assemble_project(t)
    \/ \E t \in Targets, kind \in {"bake", "segments"} : enqueue_segment_job(t, kind)
    \/ \E id \in JobIds : cancel(id)
    \/ cancel_pending
    \/ \E t \in Targets : reset_chapter(t)
    \/ pause
    \/ resume
    \/ cleanup_and_reconcile
    \/ clear_history
    \/ start_xtts_queue
    \/ \E id \in JobIds : remove_from_queue(id)
    \/ backfill_mp3_queue
    \/ \E t \in Targets, sp \in {0} \cup Profiles : api_add_to_queue_as(t, sp)
    \/ \E a \in BOOLEAN, b \in BOOLEAN : save_settings(a, b)
    \/ \E p \in Profiles : set_default_speaker(p)
    \/ \E p \in Profiles, s \in Speeds : update_speaker_speed(p, s)
    \/ \E id \in JobIds, s \in FinalStatuses, fails \in SUBSET SideEffects :
          update_job_failing(id, s, fails)
    \/ \E t \in Targets : update_job_title(t)
    \/ Worker
    \/ \E t \in Targets : upload(t)
    \/ \E t \in Targets : delete_audio(t)
    \/ \E t \in Targets, where \in {"project", "legacy"} : delete_text(t, where)
    \/ restart

Spec == Init /\ [][Next]_vars

\* ------------------------------------------------- job lifecycle (C1, C2, C4)
\* the handlers and worker steps that write a job's status
SpecLifecycle ==
    Init /\ [][
        \/ \E t \in Targets : api_add_to_queue(t)
        \/ \E t \in Targets : create_audiobook(t)
        \/ \E t \in Targets, kind \in {"bake", "segments"} : enqueue_segment_job(t, kind)
        \/ \E id \in JobIds : cancel(id)
        \/ cancel_pending
        \/ \E t \in Targets : reset_chapter(t)
        \/ pause
        \/ resume
        \/ cleanup_and_reconcile
        \/ restart
        \/ \E w \in Pools : dequeue(w)
        \/ \E w \in Pools : start(w)
        \/ \E w \in Pools : check(w)
        \/ \E w \in Pools : assembly_finish(w)
        \/ \E w \in Pools : synthesis_finish(w)
        \/ \E w \in Pools : mp3_finish(w)
        \/ \E w \in Pools : bake_finish(w)
        \/ \E w \in Pools : segment_batch_done(w)
        \/ \E w \in Pools : segments_finish(w)
    ]_vars

\* C1: whatever the interleaving of worker steps, cancel, cancel-all-pending,
\* reconcile, enqueue / requeue, chapter reset and startup recovery, a job
\* record that changes status does so along one of the lifecycle edges.
C1_StatusFollowsLifecycle ==
    [][\A id \in (DOMAIN jobs) \cap (DOMAIN jobs') :
          jobs[id].status # jobs'[id].status
             => <<jobs[id].status, jobs'[id].status>> \in (
                   {<<"queued", "running">>, <<"running", "done">>, <<"running", "failed">>,
                    <<"running", "cancelled">>, <<"done", "queued">>, <<"failed", "queued">>,
                    <<"cancelled", "queued">>})]_vars

\* C2: when cancel(id) was called while job id was running, the worker's turn
\* on it ends with status cancelled (never done, failed or still running) on
\* every path: single-speaker, script, bake, segment generation, the MP3
\* conversion and audiobook assembly.  The exception boundary is left out.
C2_CancelWhileRunningEndsCancelled ==
    [][\A w \in Pools :
          (/\ worker[w].pc \in {"started", "engine", "mp3", "seg_done"}
           /\ worker'[w].pc = "idle"
           /\ worker[w].jid \in cancel_running
           /\ worker[w].jid \in DOMAIN jobs')
             => jobs'[worker[w].jid].status = "cancelled"]_vars

\* C4: a job that cancel-all-pending has cancelled (status cancelled, log
\* "Cancelled by user.") is not started or completed by a worker afterwards:
\* its status stays cancelled unless a new enqueue makes it queued again.
C4_CancelAllIsFinal ==
    [][\A id \in (DOMAIN jobs) \cap (DOMAIN jobs') :
          (jobs[id].status = "cancelled" /\ jobs[id].log = "Cancelled by user.")
             => jobs'[id].status \in {"cancelled", "queued"}]_vars

\* ------------------------------------------------- startup recovery (C3)
SpecRestart ==
    Init /\ [][
        \/ \E t \in Targets : upload(t)
        \/ \E t \in Targets : enqueue_single(t)
        \/ \E t \in Targets : create_audiobook(t)
        \/ restart
        \/ cleanup_and_reconcile
        \/ \E t \in Targets : delete_audio(t)
        \/ \E w \in Pools : dequeue(w)
        \/ \E w \in Pools : start(w)
        \/ \E w \in Pools : check(w)
        \/ \E w \in Pools : assembly_finish(w)
        \/ \E w \in Pools : synthesis_finish(w)
        \/ \E w \in Pools : mp3_finish(w)
    ]_vars

SpecPause ==
    Init /\ [][
        \/ \E t \in Targets : api_add_to_queue(t)
        \/ \E t \in Targets : enqueue_single(t)
        \/ pause
        \/ resume
        \/ \E w \in Pools : dequeue(w)
        \/ \E w \in Pools : start(w)
        \/ \E w \in Pools : check(w)
        \/ \E w \in Pools : synthesis_finish(w)
        \/ \E w \in Pools : mp3_finish(w)
    ]_vars

\* both pools while the gate is engaged and released
FairPause ==
    Init /\ [][
        \/ \E t \in Targets : api_add_to_queue(t)
        \/ \E t \in Targets : create_audiobook(t)
        \/ \E t \in Targets : assemble_project(t)
        \/ pause
        \/ resume
        \/ \E w \in Pools : dequeue(w)
        \/ \E w \in Pools : start(w)
        \/ \E w \in Pools : check(w)
        \/ \E w \in Pools : assembly_finish(w)
    ]_vars /\ WF_vars( (
          \/ dequeue("assembly")
          \/ start("assembly")
          \/ check("assembly")
          \/ assembly_finish("assembly")))

\* C5: a synthesis job with bypass_pause unset that was enqueued while the
\* pause gate was engaged is not running as long as resume() has not been
\* called (held is emptied by resume()).
C5_HeldNotRunning ==
    \A id \in held \cap DOMAIN jobs :
       (jobs[id].engine # "audiobook" /\ ~jobs[id].bypass_pause)
          => jobs[id].status # "running"

\* the synthesis worker has taken such a job off the queue and waits at the gate
C5_Witness ==
    /\ pause_flag
    /\ worker["synthesis"].pc = "gate"
    /\ worker["synthesis"].jid \in held
    /\ ~worker["synthesis"].j.bypass_pause
    /\ jobs[worker["synthesis"].jid].status = "queued"

\* C6: the assembly pool is never gated: an assembly job at the head of the
\* assembly queue while the pause gate is engaged is written running by the
\* assembly worker, whatever its bypass flag and whatever the synthesis
\* worker does.
C6_AssemblyNeverGated ==
    \A id \in JobIds :
       (pause_flag /\ assembly_queue # <<>> /\ Head(assembly_queue) = id)
          ~> (worker["assembly"].jid = id /\ jobs[id].status = "running")

\* an assembly job without the bypass flag runs while the gate is engaged and
\* the synthesis worker waits at the gate
C6_Witness ==
    /\ pause_flag
    /\ worker["synthesis"].pc = "gate"
    /\ worker["assembly"].pc = "started"
    /\ ~worker["assembly"].j.bypass_pause
    /\ jobs[worker["assembly"].jid].status = "running"

\* C7: in no reachable state are two mirror rows with status queued or running
\* recorded for the same target (the state in which a second add of the target
\* could be answered with another id than the first).
C7_OneActiveRowPerTarget ==
    \A t \in Targets : Cardinality(ActiveRows(mirror, t)) <= 1

\* ------------------------------------------------- queue mirror (C7)
SpecMirror ==
    Init /\ [][
        \/ \E t \in Targets : api_add_to_queue(t)
        \/ cleanup_and_reconcile
        \/ \E t \in Targets : delete_audio(t)
        \/ \E w \in Pools : dequeue(w)
        \/ \E w \in Pools : start(w)
        \/ \E w \in Pools : check(w)
        \/ \E w \in Pools : synthesis_finish(w)
        \/ \E w \in Pools : mp3_finish(w)
    ]_vars

\* ------------------------------------------------- reconciler (C8, C9)
\* the reset pass: jobs finish, audio disappears, the reconciler runs
SpecReset ==
    Init /\ [][
        \/ \E t \in Targets : upload(t)
        \/ \E t \in Targets : enqueue_single(t)
        \/ \E t \in Targets : create_audiobook(t)
        \/ cleanup_and_reconcile
        \/ \E t \in Targets : delete_audio(t)
        \/ \E t \in Targets : delete_text(t, "legacy")
        \/ \E w \in Pools : dequeue(w)
        \/ \E w \in Pools : start(w)
        \/ \E w \in Pools : check(w)
        \/ \E w \in Pools : assembly_finish(w)
        \/ \E w \in Pools : synthesis_finish(w)
        \/ \E w \in Pools : mp3_finish(w)
    ]_vars

\* the prune pass: text files come and go in both directories, audiobooks are
\* built and deleted, the reconciler runs
SpecPrune ==
    Init /\ [][
        \/ \E t \in Targets : api_add_to_queue(t)
        \/ \E t \in Targets : enqueue_single(t)
        \/ \E t \in Targets : create_audiobook(t)
        \/ cleanup_and_reconcile
        \/ \E t \in Targets : upload(t)
        \/ \E t \in Targets : delete_audio(t)
        \/ \E t \in Targets, where \in {"project", "legacy"} : delete_text(t, where)
        \/ dequeue("assembly")
        \/ start("assembly")
        \/ check("assembly")
        \/ assembly_finish("assembly")
    ]_vars

\* number of occurrences of id in queue q
Occurrences(q, id) == Cardinality({i \in 1..Len(q) : q[i] = id})

\* the record of a job the reconciler has reset
IsReset(j, notice) ==
    /\ j.status = "queued"
    /\ j.progress = 0
    /\ j.error = "None"
    /\ j.warning_count = 0
    /\ ~j.started_at /\ ~j.finished_at
    /\ ~j.output_wav /\ ~j.output_mp3
    /\ j.log \in notice

\* the job's expected output file is missing
OutputMissing(j) == ~_output_exists(files, j.engine, j.target, j.project, j.make_mp3)

SpecProgress ==
    Init /\ [][
        \/ \E t \in Targets : api_add_to_queue(t)
        \/ \E t \in Targets, kind \in {"bake", "segments"} : enqueue_segment_job(t, kind)
        \/ \E w \in Pools : dequeue(w)
        \/ \E w \in Pools : start(w)
        \/ \E w \in Pools : check(w)
        \/ \E w \in Pools : engine_tick(w)
        \/ \E w \in Pools : engine_line(w)
        \/ \E w \in Pools : synthesis_finish(w)
        \/ \E w \in Pools : mp3_finish(w)
        \/ \E w \in Pools : bake_group_saved(w)
        \/ \E w \in Pools : bake_finish(w)
        \/ \E w \in Pools : segment_batch_done(w)
        \/ \E w \in Pools : segments_finish(w)
    ]_vars

\* C10: while a job is running, each progress value written to its record is
\* at least the value before, whichever signal produced it (heartbeat
\* projection, tqdm percentage, bake group completion, segment batch
\* completion, the 0.99 mark before the MP3 conversion).
C10_ProgressNeverDecreases ==
    [][\A id \in (DOMAIN jobs) \cap (DOMAIN jobs') :
          (jobs[id].status = "running" /\ jobs'[id].status = "running")
             => jobs'[id].progress >= jobs[id].progress]_vars

\* ------------------------------------------------- queue order (C11)
\* enqueue of new jobs, requeue of reset jobs by the reconciler, both workers
SpecFifo ==
    Init /\ [][
        \/ \E t \in Targets : upload(t)
        \/ \E t \in Targets : enqueue_single(t)
        \/ \E t \in Targets : create_audiobook(t)
        \/ cleanup_and_reconcile
        \/ \E t \in Targets : delete_audio(t)
        \/ \E w \in Pools : dequeue(w)
        \/ \E w \in Pools : start(w)
        \/ \E w \in Pools : check(w)
        \/ \E w \in Pools : assembly_finish(w)
        \/ \E w \in Pools : synthesis_finish(w)
        \/ \E w \in Pools : mp3_finish(w)
    ]_vars

\* C11: within a pool, ids leave the worker queue at its head and enter it at
\* its tail, the worker takes the id at the head, and the job a worker writes
\* running is the one it took from the queue of its own pool: jobs are started
\* in the order their ids were put.  Nothing relates the two pools.
C11_StartedInPutOrder ==
    [][/\ \A w \in Pools :
            LET q == QueueOf(w)
                q2 == (IF w = "assembly" THEN assembly_queue' ELSE job_queue')
            IN /\ (worker[w].pc = "idle" /\ worker'[w].pc = "gate")
                     => (q # <<>> /\ worker'[w].jid = Head(q) /\ q2 = Tail(q))
               /\ q2 # q
                     => \/ (q # <<>> /\ q2 = Tail(q) /\ worker[w].pc = "idle")
                        \/ (Len(q2) > Len(q) /\ SubSeq(q2, 1, Len(q)) = q)
       /\ \A id \in (DOMAIN jobs) \cap (DOMAIN jobs') :
            (jobs[id].status # "running" /\ jobs'[id].status = "running")
               => \E w \in Pools : /\ worker[w].pc = "gate"
                                   /\ worker[w].jid = id
                                   /\ w = PoolOf(jobs[id].engine)]_vars

\* the assembly worker has started the id put first while the id put after it
\* waits at the head of the assembly queue
C11_Witness ==
    /\ worker["assembly"].pc = "started"
    /\ jobs[worker["assembly"].jid].status = "running"
    /\ assembly_queue # <<>>
    /\ Head(assembly_queue) > worker["assembly"].jid

\* ------------------------------------------------- done records (C12)
\* C12: every job that a worker sets to done has progress 1.0 and at least one
\* output reference (output_wav or output_mp3) in its record, on every path
\* that leads to done (engine success, output-already-exists skip, bake,
\* segment generation, assembly).
C12_DoneHasProgressAndOutput ==
    [][\A id \in (DOMAIN jobs) \cap (DOMAIN jobs') :
          (jobs[id].status # "done" /\ jobs'[id].status = "done")
             => /\ jobs'[id].progress = 100
                /\ (jobs'[id].output_wav \/ jobs'[id].output_mp3)]_vars

\* ------------------------------------------------- update of a missing id (C13)
\* a queue entry's job is pruned while the synthesis worker holds its id; the
\* worker's turn goes up to the engine call and ends with a result write
SpecUpdate ==
    Init /\ [][
        \/ \E t \in Targets : api_add_to_queue(t)
        \/ \E t \in Targets : delete_text(t, "project")
        \/ cleanup_and_reconcile
        \/ dequeue("synthesis")
        \/ start("synthesis")
        \/ check("synthesis")
        \/ worker_exception("synthesis")
    ]_vars

SpecClear ==
    Init /\ [][
        \/ \E t \in Targets : upload(t)
        \/ \E t \in Targets : enqueue_single(t)
        \/ \E t \in Targets : create_audiobook(t)
        \/ clear_history
        \/ \E w \in Pools : dequeue(w)
        \/ \E w \in Pools : start(w)
        \/ \E w \in Pools : check(w)
        \/ \E w \in Pools : assembly_finish(w)
        \/ \E w \in Pools : synthesis_finish(w)
        \/ \E w \in Pools : mp3_finish(w)
    ]_vars

SpecDedup ==
    Init /\ [][
        \/ \E t \in Targets : upload(t)
        \/ start_xtts_queue
        \/ \E w \in Pools : dequeue(w)
        \/ \E w \in Pools : start(w)
        \/ \E w \in Pools : check(w)
        \/ \E w \in Pools : synthesis_finish(w)
        \/ \E w \in Pools : mp3_finish(w)
    ]_vars

\* C15: after any sequence of /queue/start_xtts calls, with the worker
\* processing jobs in between, the State Store holds at most one job record
\* per chapter file.
C15_OneJobPerChapter ==
    \A t \in Targets :
       Cardinality({i \in DOMAIN jobs : jobs[i].target = t}) <= 1

\* a second call has replaced the failed job of a chapter by a new one, whose
\* id waits in the queue behind the one the first call had put
C15_Witness ==
    /\ nextId > 2
    /\ \E i \in DOMAIN jobs : i > 1 /\ jobs[i].status = "queued" /\ jobs[i].target = 1
    /\ 1 \notin DOMAIN jobs

\* ------------------------------------------------- forward-sync (C16)
\* queue entries are added and processed, text files disappear, the reconciler runs
SpecSync ==
    Init /\ [][
        \/ \E t \in Targets : api_add_to_queue(t)
        \/ \E t \in Targets : delete_text(t, "project")
        \/ cleanup_and_reconcile
        \/ dequeue("synthesis")
        \/ start("synthesis")
        \/ check("synthesis")
        \/ synthesis_finish("synthesis")
        \/ mp3_finish("synthesis")
    ]_vars

\* what the forward-sync leaves for job id: the record untouched, its mirror
\* row and the chapter of that row done
KeptDoneAndSynced(id) ==
    /\ id \in DOMAIN jobs'
    /\ jobs'[id] = jobs[id]
    /\ id \in DOMAIN mirror
          => /\ mirror'[id].status = "done"
             /\ chapters'[mirror[id].target] = "done"

DoneWithOutputAndText(id) ==
    /\ jobs[id].status = "done"
    /\ jobs[id].engine # "audiobook"
    /\ ReconcileTextExists(files, jobs[id])
    /\ ~OutputMissing(jobs[id])

SpecRemove ==
    Init /\ [][
        \/ \E t \in Targets : api_add_to_queue(t)
        \/ \E id \in JobIds : remove_from_queue(id)
        \/ \E w \in Pools : dequeue(w)
        \/ \E w \in Pools : start(w)
        \/ \E w \in Pools : check(w)
        \/ \E w \in Pools : synthesis_finish(w)
        \/ \E w \in Pools : mp3_finish(w)
    ]_vars

\* C17: remove_from_queue resets the chapter's audio_status to unprocessed only
\* when the removed item was not finished: removing a done item leaves the
\* chapter's audio_status as it was (done), removing a queued item sets it to
\* unprocessed.
C17_RemoveKeepsFinishedAudio ==
    [][\A id \in (DOMAIN mirror) \ (DOMAIN mirror') :
          /\ mirror[id].status = "done"
                => chapters'[mirror[id].target] = chapters[mirror[id].target]
          /\ mirror[id].status = "queued"
                => chapters'[mirror[id].target] = "unprocessed"]_vars

\* ------------------------------------------------- MP3 backfill (C18)
SpecBackfill ==
    Init /\ [][
        \/ \E t \in Targets : upload(t)
        \/ \E t \in Targets : enqueue_single(t)
        \/ backfill_mp3_queue
        \/ \E w \in Pools : dequeue(w)
        \/ \E w \in Pools : start(w)
        \/ \E w \in Pools : check(w)
        \/ \E w \in Pools : synthesis_finish(w)
        \/ \E w \in Pools : mp3_finish(w)
    ]_vars

\* C18: when /queue/backfill_mp3 finds a done job that wants an MP3 and has
\* its WAV but no MP3 in the output directory, and the conversion succeeds,
\* the job ends the call with status done and the call has not put its id on
\* a worker queue.
C18_BackfillFixesWithoutRequeue ==
    [][backfill_mp3_queue =>
          \A id \in DOMAIN jobs :
             (/\ jobs[id].status = "done"
              /\ jobs[id].make_mp3
              /\ jobs[id].target \in files.wav_legacy \ files.mp3_legacy
              /\ BackfillJob(Reconciled.jobs, jobs[id].target) = id
              /\ jobs[id].target \in files'.mp3_legacy)
                => /\ id \in DOMAIN jobs'
                   /\ jobs'[id].status = "done"
                   /\ Occurrences(job_queue', id) = Occurrences(job_queue, id)
                   /\ Occurrences(assembly_queue', id)
                         = Occurrences(assembly_queue, id)]_vars

\* ------------------------------------------- crash during a write (C19)
\* statuses update_job_begin writes in the store specifications
WrittenStatuses == {"running", "done"}

SpecCrash ==
    Init /\ [][
        \/ \E t \in Targets : put_job_begin(t)
        \/ \E id \in JobIds, s \in WrittenStatuses : update_job_begin(id, s)
        \/ write_text_begin
        \/ write_text_end
        \/ os_replace
        \/ store_return
        \/ crash
    ]_vars

\* state.json holds a complete record set
FileComplete == state_file.main = "valid"

\* C19: if the process crashes at any point of a State Store write, the state
\* file holds the complete previous contents or the complete new contents,
\* never a truncated or partially written record set.
C19_CrashLeavesPreviousOrNew ==
    /\ []FileComplete
    /\ [][/\ FileComplete'
          /\ \/ jobs' = jobs
             \/ /\ state_file.pending # <<>>
                /\ jobs' = state_file.pending[1].text]_vars
    /\ [][crash => (state_file'.main = state_file.main /\ jobs' = jobs)]_vars

\* a process died while state.json.tmp was half written, on a store that
\* already held a record: the state file still holds that record set
C19_Witness ==
    /\ state_file.pc = "idle"
    /\ state_file.tmp = "partial"
    /\ FileComplete
    /\ jobs # <<>>

\* ------------------------------------------ unreadable state file (C20)
SpecCorrupt ==
    Init /\ [][
        \/ \E kind \in Unreadable : corrupt(kind)
        \/ get_jobs
        \/ \E t \in Targets : put_job_begin(t)
        \/ \E id \in JobIds, s \in WrittenStatuses : update_job_begin(id, s)
        \/ write_text_begin
        \/ write_text_end
        \/ os_replace
        \/ store_return
    ]_vars

\* C20: loading the State Store when the persisted file is unreadable as a
\* record set never raises to the caller of a store operation: the file is
\* renamed aside as a backup (when it has content), replaced by the fresh
\* empty default state, and that default is what the operation sees.
C20_UnreadableFileIsHealed ==
    /\ [](~raised)
    /\ [][(state_file.main \in Unreadable /\ (
          \/ get_jobs
          \/ \E t \in Targets : put_job_begin(t)
          \/ \E id \in JobIds, s \in WrittenStatuses : update_job_begin(id, s)))
            => /\ ~raised'
               /\ state_file'.main = "valid"
               /\ jobs' = <<>>
               /\ state_file.main \in {"garbage", "nonobject"}
                     => state_file'.backup]_vars

\* ------------------------------------------- settings snapshot (C21)
SpecSnapshot ==
    Init /\ [][
        \/ \E t \in Targets, sp \in {0} \cup Profiles : api_add_to_queue_as(t, sp)
        \/ \E a \in BOOLEAN, b \in BOOLEAN : save_settings(a, b)
        \/ \E p \in Profiles : set_default_speaker(p)
        \/ \E p \in Profiles, s \in Speeds : update_speaker_speed(p, s)
        \/ \E w \in Pools : dequeue(w)
        \/ \E w \in Pools : start(w)
        \/ \E w \in Pools : check(w)
        \/ \E w \in Pools : synthesis_finish(w)
    ]_vars

\* C21: once a job is enqueued, a later change of the settings does not alter
\* the sanitization flag, output format, voice or speed it is executed with:
\* a step that changes the settings or a profile leaves the run values of
\* every queued job as they were.
C21_SettingsChangeKeepsRunValues ==
    [][(settings' # settings \/ profiles' # profiles)
          => \A id \in DOMAIN jobs :
                jobs[id].status = "queued"
                   => /\ id \in DOMAIN jobs'
                      /\ RunValues(profiles', jobs'[id]) = RunValues(profiles, jobs[id])]_vars

\* ------------------------------------------- exception in a job (C22)
SpecException ==
    Init /\ [][
        \/ \E t \in Targets : upload(t)
        \/ \E t \in Targets : enqueue_single(t)
        \/ \E t \in Targets : create_audiobook(t)
        \/ \E w \in Pools : dequeue(w)
        \/ \E w \in Pools : start(w)
        \/ \E w \in Pools : check(w)
        \/ \E w \in Pools : worker_exception(w)
        \/ \E w \in Pools : assembly_finish(w)
        \/ \E w \in Pools : synthesis_finish(w)
        \/ \E w \in Pools : mp3_finish(w)
    ]_vars

\* C22: when the per-job body raises, the job (if its record is still in the
\* store) is marked failed with the internal-error marker and the traceback,
\* and the worker goes back to q.get() with its queue untouched, so it
\* dequeues the next id.
C22_ExceptionFailsJobAndWorkerContinues ==
    /\ [] (
          \A w \in Pools :
             (worker[w].pc \notin {"gate", "started", "engine", "mp3", "seg_done"}
                /\ QueueOf(w) # <<>>) => ENABLED dequeue(w))
    /\ [][\A w \in Pools :
            worker_exception(w)
               => /\ worker[w].jid \in DOMAIN jobs
                       => /\ worker[w].jid \in DOMAIN jobs'
                          /\ jobs'[worker[w].jid].status = "failed"
                          /\ jobs'[worker[w].jid].error = "Worker crashed"
                          /\ jobs'[worker[w].jid].log = "traceback"
                  /\ worker'[w].pc = "idle"
                  /\ QueueOf(w)' = QueueOf(w)]_vars

\* a job failed by an exception, and the same pool's worker running a later job
C22_Witness ==
    \E a \in DOMAIN jobs, w \in Pools :
       /\ jobs[a].status = "failed"
       /\ jobs[a].error = "Worker crashed"
       /\ PoolOf(jobs[a].engine) = w
       /\ worker[w].jid # a
       /\ worker[w].pc = "started"

\* C23: in every reachable state at most one job of the synthesis pool and at
\* most one job of the assembly pool has status running in the store: the
\* worker has not started an id while the record of an earlier one is running.
C23_OneRunningPerPool ==
    \A w \in Pools : Cardinality(({id \in DOMAIN jobs : jobs[id].status = "running" /\ PoolOf(jobs[id].engine) = w})) <= 1

\* C24: while a job is running only its worker changes its status: no step of
\* cancel_pending, reset_chapter, api_add_to_queue, start_xtts_queue or
\* cleanup_and_reconcile changes the status of, or removes or replaces the
\* record of, a job that is running.
C24_HandlersLeaveRunningJobs ==
    [][ (
          \/ cancel_pending
          \/ \E t \in Targets : reset_chapter(t)
          \/ \E t \in Targets : api_add_to_queue(t)
          \/ start_xtts_queue
          \/ cleanup_and_reconcile)
          => \A id \in DOMAIN jobs :
                jobs[id].status = "running"
                   => /\ id \in DOMAIN jobs'
                      /\ jobs'[id].status = "running"]_vars

\* ------------------------------------------- cancellation token (C25)
\* C25: a job's token is discarded when the job leaves running: the registry
\* holds no signalled token for a job that is not queued or running, so an id
\* that is queued again later starts with an unsignalled token.
C25_NoSignalledTokenAfterRun ==
    \A id \in JobIds :
       (id \notin DOMAIN jobs \/ jobs[id].status \notin {"queued", "running"})
          => cancel_flags[id] # "set"

\* ------------------------------------------- cancel at the pause gate (C26)
\* cancel(id) was called for the job, or a handler wrote it cancelled
Cancelled(id) ==
    \/ cancel_flags[id] = "set"
    \/ id \in DOMAIN jobs /\ jobs[id].status = "cancelled"

\* C26: a synthesis job blocked at the pause gate stops waiting as soon as the
\* gate is released or the job is cancelled: a worker at the gate whose job
\* has been cancelled can leave the wait although resume() was not called.
C26_CancelEndsGateWait ==
    \A w \in Pools :
       (worker[w].pc = "gate" /\ pause_flag /\ Cancelled(worker[w].jid))
          => ENABLED start(w)

\* ------------------------------------------- progress below 1.0 (C27)
\* C27: while a job is running its reported progress is strictly below 1.0
\* (100 percent); progress 1.0 is written only together with a terminal
\* status.
C27_RunningProgressBelowOne ==
    \A id \in DOMAIN jobs :
       jobs[id].status = "running" => jobs[id].progress < 100

\* ------------------------------------------- missing source text (C28)
\* C28: a job whose source text is missing is pruned by the Reconciler and is
\* never surfaced as a failed job: no record of the store is failed with the
\* missing-input marker, whichever of cleanup_and_reconcile and the worker
\* meets the missing text first.
C28_MissingTextNeverFailsJob ==
    \A id \in DOMAIN jobs :
       ~(jobs[id].status = "failed" /\ jobs[id].error = "Chapter file not found")

\* ------------------------------------------- mirror repair (C29)
SpecRepair ==
    Init /\ [][
        \/ \E t \in Targets : api_add_to_queue(t)
        \/ clear_history
        \/ \E id \in JobIds : remove_from_queue(id)
        \/ \E t \in Targets : delete_audio(t)
        \/ restart
        \/ cleanup_and_reconcile
        \/ \E w \in Pools : dequeue(w)
        \/ \E w \in Pools : start(w)
        \/ \E w \in Pools : check(w)
        \/ \E w \in Pools : synthesis_finish(w)
        \/ \E w \in Pools : mp3_finish(w)
    ]_vars

\* the store and mirror after the process is stopped in the current state and
\* started again (startup_event), and cleanup_and_reconcile has then run
AfterReconciler ==
    ReconciledOn(Restarted.jobs, Restarted.mirror, Restarted.chapters, <<>>)

SpecSideEffects ==
    Init /\ [][
        \/ \E t \in Targets : api_add_to_queue(t)
        \/ \E id \in JobIds, s \in FinalStatuses, fails \in SUBSET SideEffects :
              update_job_failing(id, s, fails)
        \/ \E w \in Pools : dequeue(w)
    ]_vars

SpecMetrics ==
    Init /\ [][
        \/ \E t \in Targets : api_add_to_queue(t)
        \/ \E t \in Targets : create_audiobook(t)
        \/ \E t \in Targets, where \in {"project", "legacy"} : delete_text(t, where)
        \/ \E w \in Pools : dequeue(w)
        \/ \E w \in Pools : start(w)
        \/ \E w \in Pools : check(w)
        \/ \E w \in Pools : time_passes(w)
        \/ \E w \in Pools : synthesis_finish(w)
        \/ \E w \in Pools : mp3_finish(w)
        \/ \E w \in Pools : assembly_finish(w)
        \/ \E w \in Pools : worker_exception(w)
    ]_vars

\* C32: when the expected output of a job already exists at the safety checks,
\* the worker takes the job from running straight to done, without an engine
\* run, and the Performance Metrics stay as they are.
C32_SkipGoesStraightToDone ==
    [][\A w \in Pools :
         (/\ check(w)
          /\ worker[w].jid \in DOMAIN jobs
          /\ _output_exists(files, worker[w].j.engine, worker[w].j.target,
                            worker[w].j.project, worker[w].j.make_mp3))
            => /\ jobs'[worker[w].jid].status = "done"
               /\ worker'[w].pc = "idle"
               /\ metrics' = metrics]_vars

\* the metric of the pool w
MetricOf(w) == IF w = "assembly" THEN "audiobook_speed_multiplier" ELSE "xtts_cps"

\* C33: the Performance Metrics change only when a job completes successfully:
\* a step changes at most the metric of the pool whose worker takes it, and a
\* processing turn in which the metric was changed ends with the job done.
C33_MetricsChangeOnlyOnSuccess ==
    [][/\ \A f \in ({f \in DOMAIN metrics : metrics'[f] # metrics[f]}) :
             \E w \in Pools : /\ f = MetricOf(w)
                              /\ worker[w].pc = "engine"
                              /\ worker'[w].pc \in {"idle", "mp3"}
       /\ \A w \in Pools :
             (/\ worker[w].pc \in {"engine", "mp3"}
              /\ worker'[w].pc = "idle"
              /\ worker[w].jid \in DOMAIN jobs
              /\ MetricOf(w) \in DOMAIN worker[w].perf
              /\ metrics'[MetricOf(w)] # worker[w].perf[MetricOf(w)])
                => jobs'[worker[w].jid].status = "done"]_vars

\* ------------------------------------------------------ stored log (C34)
SpecLog ==
    Init /\ [][
        \/ \E t \in Targets : api_add_to_queue(t)
        \/ \E w \in Pools : dequeue(w)
        \/ \E w \in Pools : start(w)
        \/ \E w \in Pools : check(w)
        \/ \E w \in Pools : engine_line(w)
        \/ \E w \in Pools : synthesis_finish(w)
        \/ \E w \in Pools : mp3_finish(w)
        \/ \E w \in Pools : worker_exception(w)
    ]_vars

\* C34: the log stored in a job record is a bounded trailing buffer: after
\* every write, the final write of a turn included, it is not longer than the
\* bound.
C34_StoredLogWithinBound ==
    \A id \in DOMAIN jobs : jobs[id].log_len <= LogBound

\* ------------------------------------------ ids in the worker queues (C35)
SpecQueues ==
    Init /\ [][
        \/ \E t \in Targets : upload(t)
        \/ \E t \in Targets : enqueue_single(t)
        \/ \E t \in Targets : api_add_to_queue(t)
        \/ start_xtts_queue
        \/ backfill_mp3_queue
        \/ cleanup_and_reconcile
        \/ \E t \in Targets : delete_audio(t)
        \/ \E w \in Pools : dequeue(w)
        \/ \E w \in Pools : start(w)
        \/ \E w \in Pools : check(w)
        \/ \E w \in Pools : synthesis_finish(w)
        \/ \E w \in Pools : mp3_finish(w)
    ]_vars

\* C35: each job id occurs at most once across the two worker queues, and is
\* in no queue while a worker is processing it.
C35_IdQueuedAtMostOnce ==
    \A id \in JobIds :
       /\ Occurrences(job_queue, id) + Occurrences(assembly_queue, id) <= 1
       /\ (\E w \in Pools : worker[w].pc # "idle" /\ worker[w].jid = id)
             => Occurrences(job_queue, id) + Occurrences(assembly_queue, id) = 0

\* --------------------------------------------- end of a processing turn (C36)
SpecTurn ==
    Init /\ [][
        \/ \E t \in Targets : api_add_to_queue(t)
        \/ \E t \in Targets, kind \in {"bake", "segments"} : enqueue_segment_job(t, kind)
        \/ \E id \in JobIds : cancel(id)
        \/ \E w \in Pools : dequeue(w)
        \/ \E w \in Pools : start(w)
        \/ \E w \in Pools : check(w)
        \/ \E w \in Pools : synthesis_finish(w)
        \/ \E w \in Pools : mp3_finish(w)
        \/ \E w \in Pools : bake_group_saved(w)
        \/ \E w \in Pools : bake_finish(w)
        \/ \E w \in Pools : segment_batch_done(w)
        \/ \E w \in Pools : segments_finish(w)
        \/ \E w \in Pools : worker_exception(w)
    ]_vars

\* C36: every processing turn ends in a terminal status: when a worker that
\* has written a job running goes back to q.get(), the job's status is done,
\* failed or cancelled.
C36_TurnEndsTerminal ==
    [][\A w \in Pools :
         (/\ worker[w].pc \notin {"idle", "gate"}
          /\ worker'[w].pc = "idle"
          /\ worker[w].jid \in DOMAIN jobs')
            => jobs'[worker[w].jid].status \in {"done", "failed", "cancelled"}]_vars

\* C37: whenever a worker sets a job to done, the output the reconciler checks
\* for that job exists, so a reconcile that follows does not reset the job.
C37_DoneHasReconciledOutput ==
    [][\A w \in Pools :
         (/\ worker[w].pc \notin {"idle", "gate"}
          /\ worker'[w].pc = "idle"
          /\ worker[w].jid \in DOMAIN jobs'
          /\ jobs'[worker[w].jid].status = "done")
            => worker[w].jid \notin ResetIds(jobs', files')]_vars

\* ------------------------------------- pause bypass behind a held job (C38)
FairBypass ==
    Init /\ [][
        \/ \E t \in Targets : upload(t)
        \/ \E t \in Targets : api_add_to_queue(t)
        \/ \E t \in Targets : enqueue_single(t)
        \/ pause
        \/ resume
        \/ \E w \in Pools : dequeue(w)
        \/ \E w \in Pools : start(w)
        \/ \E w \in Pools : check(w)
        \/ \E w \in Pools : synthesis_finish(w)
        \/ \E w \in Pools : mp3_finish(w)
    ]_vars /\ WF_vars( (
          \/ dequeue("synthesis")
          \/ start("synthesis")
          \/ check("synthesis")
          \/ synthesis_finish("synthesis")
          \/ mp3_finish("synthesis")))

\* C38: while the pause gate is engaged, a queued synthesis job with the
\* pause-bypass flag is eventually written running (unless the gate is
\* released or the record is removed first), also when jobs without the flag
\* are ahead of it in the queue.
C38_BypassJobEventuallyRuns ==
    \A id \in JobIds :
       (/\ pause_flag
        /\ InQueue(job_queue, id)
        /\ id \in DOMAIN jobs
        /\ jobs[id].bypass_pause)
          ~> (\/ ~pause_flag
              \/ id \notin DOMAIN jobs
              \/ jobs[id].status = "running")

\* ------------------------------------------- title placeholder record (C39)
SpecTitle ==
    Init /\ [][
        \/ \E t \in Targets : upload(t)
        \/ \E t \in Targets : api_add_to_queue(t)
        \/ \E t \in Targets, where \in {"project", "legacy"} : delete_text(t, where)
        \/ \E t \in Targets : update_job_title(t)
        \/ cleanup_and_reconcile
        \/ \E t \in Targets : delete_audio(t)
        \/ \E w \in Pools : dequeue(w)
        \/ \E w \in Pools : start(w)
        \/ \E w \in Pools : check(w)
        \/ \E w \in Pools : synthesis_finish(w)
        \/ \E w \in Pools : mp3_finish(w)
    ]_vars

\* C39: the placeholder record that stores the title of a chapter without
\* jobs is never put on a worker queue and never becomes queued or running.
C39_PlaceholderStaysOffQueue ==
    [][\A id \in JobIds :
         ( (
               /\ id \in DOMAIN jobs
               /\ jobs[id].log = "Job record created to store custom title.") /\ id \in DOMAIN jobs')
            => /\ jobs'[id].status \notin {"queued", "running"}
               /\ ~InQueue(job_queue', id)]_vars

\* ------------------------------------------------- the two locks, per thread
\* the calls a thread makes into the State Store and the queue mirror
Call(name, id, status) == [name |-> name, id |-> id, status |-> status]

\* the number of calls one thread makes, and the job id they are about
MaxCalls == 2
CallIds == {1}

\* what each thread calls: the workers update their job and the metric they
\* learn; a request handler creates, cancels, deletes and clears jobs, changes
\* the settings, adds a queue row and runs the reconciler (status "queued":
\* the output of the done job is missing, "done": it exists)
CallsOf(t) ==
    IF t = "handler"
    THEN {Call("clear_all_jobs", 0, "none"), Call("update_settings", 0, "safe_mode")}
         \cup {Call(n, id, "queued") :
                 n \in {"put_job", "delete_jobs", "add_to_queue"}, id \in CallIds}
         \cup {Call("update_job", id, "cancelled") : id \in CallIds}
         \cup {Call("cleanup_and_reconcile", id, s) :
                 id \in CallIds, s \in {"queued", "done"}}
    ELSE {Call("update_job", id, s) : id \in CallIds, s \in {"running", "done"}}
         \cup {Call("update_performance_metrics", 0,
                    IF t = "synthesis" THEN "xtts_cps" ELSE "audiobook_speed_multiplier")}

\* variant of the steps in which the mirror reads the State Store under its lock
Plan_db_lock_first(name) ==
    CASE name \in {"put_job", "delete_jobs", "clear_all_jobs",
                   "update_performance_metrics", "update_settings"}
           -> <<"acquire_state", "load", "write", "release_state">>
      [] name = "update_job"
           -> <<"acquire_state", "load", "write",
                "acquire_db", "db_write", "release_db", "release_state">>
      [] name \in {"add_to_queue", "update_queue_item"}
           -> <<"acquire_db", "acquire_state", "load", "release_state",
                "db_write", "release_db">>
      [] name = "cleanup_and_reconcile"
           -> <<"acquire_state", "load", "release_state", "decide">>

\* the steps of a call: `with _STATE_LOCK:` load, mutate, _atomic_write_text
\* (update_job: then update_queue_item inside the block); `with _db_lock:` for
\* the mirror; cleanup_and_reconcile starts with get_jobs and goes on per job
Plan(name) ==
    CASE name \in {"put_job", "delete_jobs", "clear_all_jobs",
                   "update_performance_metrics", "update_settings"}
           -> <<"acquire_state", "load", "write", "release_state">>
      [] name = "update_job"
           -> <<"acquire_state", "load", "write",
                "acquire_db", "db_write", "release_db", "release_state">>
      [] name \in {"add_to_queue", "update_queue_item"}
           -> <<"acquire_db", "db_write", "release_db">>
      [] name = "cleanup_and_reconcile"
           -> <<"acquire_state", "load", "release_state", "decide">>

\* the mutation of a call on a loaded state (jobs, settings, performance_metrics)
Apply(c, st) ==
    CASE c.name = "put_job" -> [st EXCEPT !.jobs = put_job(@, c.id, ([NewJob("xtts", "plain", 1, FALSE, FALSE, TRUE) EXCEPT !.safe_mode = TRUE]))]
      [] c.name = "update_job" ->
            [st EXCEPT !.jobs = update_job(@, c.id, [status |-> c.status])]
      [] c.name = "delete_jobs" -> [st EXCEPT !.jobs = delete_jobs(@, {c.id})]
      [] c.name = "clear_all_jobs" -> [st EXCEPT !.jobs = <<>>]
      [] c.name = "update_performance_metrics" ->
            [st EXCEPT !.metrics = update_performance_metrics(@, c.status, (14))]
      [] c.name = "update_settings" -> [st EXCEPT !.settings.safe_mode = FALSE]
      [] OTHER -> st

\* state.json as the three sections a store call loads and writes
Persisted == [jobs |-> jobs, settings |-> settings, metrics |-> metrics]

\* variant of the lock that lets every thread in
Acquirable_by_anyone(lk, t) == TRUE

\* threading.RLock: free, or held by the calling thread
Acquirable(lk, t) == lk.owner \in {"none", t}

At(t, item) == threads[t].pc > 0 /\ (threads[t].op.plan[threads[t].pc]) = item

\* the thread after its current step: the next step, or the call has returned
\* and its store mutation, if it made one, is on record
Advance(th) ==
    IF th.pc < Len(th.op.plan) THEN [th EXCEPT !.pc = @ + 1]
    ELSE [op |-> <<>>, pc |-> 0, local |-> <<>>,
          completed |-> IF th.op.inner.name \in (
                {"put_job", "update_job", "delete_jobs", "clear_all_jobs",
                 "update_performance_metrics", "update_settings"})
                        THEN Append(th.completed, th.op.inner) ELSE th.completed]

UnchangedByThreads ==
    UNCHANGED <<job_queue, assembly_queue, cancel_flags, pause_flag, worker, files,
                nextId, held, cancel_running, state_file, raised, profiles, notified>>

\* a thread enters a State Store / mirror function
call(t, c) ==
    /\ threads[t].pc = 0
    /\ Len(threads[t].completed) < MaxCalls
    /\ threads' = [threads EXCEPT ![t].op = [call |-> c, inner |-> c, plan |-> Plan(c.name)],
                                  ![t].pc = 1]
    /\ UNCHANGED <<jobs, settings, metrics, mirror, chapters, locks>>
    /\ UnchangedByThreads

\* with _STATE_LOCK: __enter__
acquire_state(t) ==
    /\ At(t, "acquire_state")
    /\ Acquirable(locks.state, t)
    /\ locks' = [locks EXCEPT !.state = [owner |-> t, depth |-> @.depth + 1]]
    /\ threads' = [threads EXCEPT ![t] = Advance(@)]
    /\ UNCHANGED <<jobs, settings, metrics, mirror, chapters>>
    /\ UnchangedByThreads

\* _load_state_no_lock; update_job returns when the id is unknown
load(t) ==
    LET th == threads[t]
        unknown == th.op.inner.name = "update_job" /\ th.op.inner.id \notin DOMAIN jobs
    IN /\ At(t, "load")
       /\ threads' = [threads EXCEPT
             ![t] = [th EXCEPT !.local = Persisted,
                               !.pc = @ + 1,
                               !.op.plan = IF unknown
                                           THEN SubSeq(@, 1, th.pc) \o <<"release_state">>
                                           ELSE @]]
       /\ UNCHANGED <<jobs, settings, metrics, mirror, chapters, locks>>
       /\ UnchangedByThreads

\* _atomic_write_text of the mutated state the thread loaded
write(t) ==
    LET st == Apply(threads[t].op.inner, threads[t].local)
    IN /\ At(t, "write")
       /\ jobs' = st.jobs
       /\ settings' = st.settings
       /\ metrics' = st.metrics
       /\ threads' = [threads EXCEPT ![t] = Advance(@)]
       /\ UNCHANGED <<mirror, chapters, locks>>
       /\ UnchangedByThreads

\* with _STATE_LOCK: __exit__
release_state(t) ==
    /\ At(t, "release_state")
    /\ locks' = [locks EXCEPT !.state = [owner |-> IF @.depth > 1 THEN @.owner ELSE "none",
                                         depth |-> IF @.depth > 0 THEN @.depth - 1 ELSE 0]]
    /\ threads' = [threads EXCEPT ![t] = Advance(@)]
    /\ UNCHANGED <<jobs, settings, metrics, mirror, chapters>>
    /\ UnchangedByThreads

\* with _db_lock: __enter__ (threading.Lock)
acquire_db(t) ==
    /\ At(t, "acquire_db")
    /\ locks.db = "none"
    /\ locks' = [locks EXCEPT !.db = t]
    /\ threads' = [threads EXCEPT ![t] = Advance(@)]
    /\ UNCHANGED <<jobs, settings, metrics, mirror, chapters>>
    /\ UnchangedByThreads

\* db.add_to_queue / db.update_queue_item: the statements under _db_lock
db_write(t) ==
    LET c == threads[t].op.inner
    IN /\ At(t, "db_write")
       /\ mirror' = IF c.name = "add_to_queue" THEN add_to_queue(mirror, 1, c.id)
                    ELSE update_queue_item(mirror, c.id, c.status)
       /\ chapters' = IF c.name = "add_to_queue" THEN chapters
                      ELSE update_queue_item_chapters(mirror, chapters, c.id, c.status)
       /\ threads' = [threads EXCEPT ![t] = Advance(@)]
       /\ UNCHANGED <<jobs, settings, metrics, locks>>
       /\ UnchangedByThreads

\* with _db_lock: __exit__
release_db(t) ==
    /\ At(t, "release_db")
    /\ locks' = [locks EXCEPT !.db = "none"]
    /\ threads' = [threads EXCEPT ![t] = Advance(@)]
    /\ UNCHANGED <<jobs, settings, metrics, mirror, chapters>>
    /\ UnchangedByThreads

\* cleanup_and_reconcile after get_jobs: a done job whose output is missing is
\* reset with update_job, one whose output exists is forward-synced with
\* update_queue_item, any other job is left alone
decide(t) ==
    LET th == threads[t]
        c == th.op.call
        isDone == c.id \in DOMAIN th.local.jobs /\ th.local.jobs[c.id].status = "done"
        inner == IF ~isDone THEN c
                 ELSE IF c.status = "queued" THEN Call("update_job", c.id, "queued")
                 ELSE Call("update_queue_item", c.id, "done")
        more == IF isDone THEN Plan(inner.name) ELSE <<>>
    IN /\ At(t, "decide")
       /\ threads' = [threads EXCEPT
             ![t] = Advance([th EXCEPT !.op.inner = inner, !.op.plan = @ \o more])]
       /\ UNCHANGED <<jobs, settings, metrics, mirror, chapters, locks>>
       /\ UnchangedByThreads

SpecLocks ==
    Init /\ [][
        \E t \in Threads :
            \/ \E c \in CallsOf(t) : call(t, c)
            \/ acquire_state(t)
            \/ load(t)
            \/ write(t)
            \/ release_state(t)
            \/ acquire_db(t)
            \/ db_write(t)
            \/ release_db(t)
            \/ decide(t)
    ]_vars

\* the completed store mutations, each thread's in the order it made them,
\* applied one at a time from st in some order, give the persisted state
\* (k: how many of each thread's are applied already)
RECURSIVE SerialFrom(_, _)
SerialFrom(st, k) ==
    IF \A t \in Threads : k[t] = Len(threads[t].completed) THEN st = Persisted
    ELSE \E t \in Threads :
            /\ k[t] < Len(threads[t].completed)
            /\ SerialFrom(Apply(threads[t].completed[k[t] + 1], st),
                          [k EXCEPT ![t] = @ + 1])

AllReturned == \A t \in Threads : threads[t].pc = 0

\* C31: concurrent State Store mutations never lose an update: once every call
\* has returned, the persisted state is what the completed mutations give when
\* they are applied one at a time in some serial order
C31_MutationsSerialize ==
    AllReturned => SerialFrom( (
          [jobs |-> <<>>,
           settings |-> [safe_mode |-> TRUE, make_mp3 |-> FALSE, default_speaker_profile |-> 0],
           metrics |-> _default_metrics]), [t \in Threads |-> 0])

\* every thread has made a store mutation, and the job, the metric and the
\* settings written by different threads are all in the persisted state
C31_Witness ==
    /\ AllReturned
    /\ \A t \in Threads : Len(threads[t].completed) > 0
    /\ 1 \in DOMAIN jobs /\ jobs[1].status = "done"
    /\ metrics # _default_metrics
    /\ settings.safe_mode = FALSE

\* thread t is at a lock that thread u holds
WaitsFor(t, u) ==
    /\ t # u
    /\ \/ At(t, "acquire_state") /\ locks.state.owner = u
       \/ At(t, "acquire_db") /\ locks.db = u

\* C40: the store lock is taken first and the database lock inside it, never
\* the reverse: no thread that holds the database lock is about to take the
\* store lock, and no set of threads is such that each waits for a lock held
\* by another of the set
C40_LockOrderNoDeadlock ==
    /\ \A t \in Threads : locks.db = t => ~At(t, "acquire_state")
    /\ \A T \in (SUBSET Threads) \ {{}} :
          ~(\A t \in T : \E u \in T : WaitsFor(t, u))

\* a worker is inside update_job with both locks while the handler waits for
\* the database lock and the other worker for the store lock
C40_Witness ==
    /\ locks.state.owner = "synthesis" /\ locks.db = "synthesis"
    /\ WaitsFor("handler", "synthesis") /\ At("handler", "acquire_db")
    /\ WaitsFor("assembly", "synthesis") /\ At("assembly", "acquire_state")

====
